---- MODULE Spec2Model ----
(***************************************************************************)
(* Model of the echosignal extraction pipeline:                            *)
(*   articles/parsers/parser_manager.py  (ParserManager)                   *)
(*   articles/parsers/base_parser.py     (BaseParser.save_to_db, fetch)    *)
(*   articles/parsers/cnbc_parser.py, roots_of_loneliness_parser.py        *)
(*   articles/models.py                  (Article, Category, Tag)          *)
(*   articles/admin.py                   (ArticleAdmin.save_model)         *)
(*                                                                         *)
(* The database runs in Django's autocommit mode (save_to_db opens no      *)
(* transaction), so every ORM statement of save_to_db is one step of the   *)
(* model and its effect on the store is durable as soon as it is taken.    *)
(* A URL is a sequence of tokens; "domain in url" is contiguous            *)
(* subsequence search.                                                     *)
(***************************************************************************)
EXTENDS Integers, Sequences, FiniteSets, TLC

VARIABLES
    articles,     \* Article table: set of rows
    categories,   \* Category table: set of [name, slug]
    tagrows,      \* Tag table: set of [name, slug]
    nextId,       \* next Article primary key
    entry,        \* entry point in progress: "none",
                  \* "parse_multiple_urls", "save_to_db"
    urls,         \* argument of parse_multiple_urls
    i,            \* position of the URL being processed (1-based)
    results,      \* results dict, as a sequence of <<key, value>> in
                  \* insertion order
    pc,           \* statement about to run
    parser,       \* parser class chosen for the current URL
    data,         \* dict returned by parser.parse()
    cat_objs,     \* local list `categories` of save_to_db (slugs)
    tag_objs,     \* local list `tags` of save_to_db (slugs)
    article,      \* local `article` of save_to_db: the created instance
    ret,          \* value returned by parse_url / save_to_db
    gets,         \* HTTP GETs issued while processing the current URL
    pre,          \* store as it was when processing of the current URL began
    faulted,      \* the exception save_to_db caught for the current URL: "",
                  \* "database" (the database failed a statement) or
                  \* "integrity" (a unique column refused an INSERT)
    outcomes,     \* per processed position of the batch: what parse_url
                  \* returned, how it ended, the Article row it inserted
    faults,       \* persistence errors raised so far
    processed,    \* URLs handed to the entry points so far
    edits,        \* admin saves made so far
    durl,         \* dispatcher check: the URL handed to get_parser_for_url
    dparser,      \* dispatcher check: what get_parser_for_url returned
    self,         \* extraction: the parser instance parse() runs on
                  \* [cls, url, soup]
    xpc,          \* extraction: the statement of parse() about to run
    raised,       \* extraction: the sub-step whose try block raised ("": none)
    frame,        \* extraction: the locals of parse()
    result,       \* extraction: the dict parse() returned
    instance,     \* models: the Category or Tag instance in memory
                  \* [model, pk, name, slug]
    stored,       \* models: the row of that instance, as last written
    objs,         \* models: the Article instances in memory, by handle
    clock,        \* models: what timezone.now() returns next
    lastsave,     \* models: the last save() call, instance before and after
    workers       \* concurrency: the save_to_db calls in progress, by worker

storeVars == <<articles, categories, tagrows, nextId>>
callVars  == <<entry, urls, i, results, pc, parser, data, cat_objs, tag_objs,
               article, ret>>
histVars  == <<gets, pre, faulted, outcomes>>
envVars   == <<faults, processed, edits>>
dispVars  == <<durl, dparser>>
extractVars == <<self, xpc, raised, frame, result>>
ormVars   == <<instance, stored, objs, clock, lastsave>>
concVars  == <<workers>>
vars      == <<storeVars, callVars, histVars, envVars, dispVars, extractVars,
               ormVars, concVars>>

----------------------------------------------------------------------------
(* Bounds of the model *)

MaxUrls     == 2      \* URLs processed per behaviour, over all calls
MaxBatchLen == 3      \* longest list of the single-batch specification
MaxFaults   == 1      \* persistence errors raised per behaviour
MaxEdits    == 1      \* admin saves per behaviour
MaxUrlLen   == 4      \* longest URL (in tokens) handed to the dispatcher check
MaxHeadingLen == 2    \* longest heading text (in tokens) of a document
MaxDateNodes  == 2    \* most elements of a document that mention a date
MaxStatNodes  == 6    \* most elements of a document with numeric data
MaxBlocks     == 4    \* most blocks of a document body
MaxParagraphs == 2    \* most paragraphs of a document without container
LongRun       == 60   \* length of a long word of a Category or Tag name
MaxSaves      == 4    \* Article.save calls per behaviour

----------------------------------------------------------------------------
(* Values *)

None == 0             \* Python None / SQL NULL (primary keys and times are > 0)

STATUS_DRAFT     == "DRAFT"
STATUS_PENDING   == "PENDING"
STATUS_PUBLISHED == "PUBLISHED"
STATUS_REJECTED  == "REJECTED"
STATUS_CHOICES   == {STATUS_DRAFT, STATUS_PENDING, STATUS_PUBLISHED, STATUS_REJECTED}

NoParser == "NoParser"
EmptyDict == [original_url |-> <<>>, source_name |-> "", content |-> "",
              categories |-> <<>>, tags |-> <<>>]
NoInstance == [id |-> None, original_status |-> ""]

\* URL tokens
Tokens == {"rootsofloneliness", "cnbc", ".com", "/x"}

\* ParserManager.__init__: the registry, in insertion order of the dict
parsers ==
    << [domain |-> <<"rootsofloneliness", ".com">>, parser_class |-> "RootsOfLonelinessParser"],
       [domain |-> <<"cnbc", ".com">>,              parser_class |-> "CnbcParser"] >>

\* `domain in url`: the domain occurs as a contiguous run anywhere in the URL
Contains(url, domain) ==
    \E k \in 0..(Len(url) - Len(domain)) :
        \A j \in 1..Len(domain) : url[k + j] = domain[j]

\* A mutation of the dispatcher loop: the last registered match wins.
RECURSIVE ScanLast(_, _)
ScanLast(n, url) ==
    IF n < 1 THEN NoParser
    ELSE IF Contains(url, parsers[n].domain) THEN parsers[n].parser_class
    ELSE ScanLast(n - 1, url)

get_parser_last_match(url) == ScanLast(Len(parsers), url)

\* ParserManager.get_parser_for_url: the for loop over self.parsers.items()
RECURSIVE Scan(_, _)
Scan(n, url) ==
    IF n > Len(parsers) THEN NoParser
    ELSE IF Contains(url, parsers[n].domain) THEN parsers[n].parser_class
    ELSE Scan(n + 1, url)

get_parser_for_url(url) == Scan(1, url)

----------------------------------------------------------------------------
(* Extraction strategies, at the level the committer sees them.  A fetched *)
(* page is [ver, hits]: ver stands for the markup the title, summary,      *)
(* authors, body and publication date are extracted from, hits is the set  *)
(* of tag patterns that re.search finds in the extracted body.             *)

Pages == { [ver |-> "v1", hits |-> {}],
           [ver |-> "v2", hits |-> {"social media", "mental health"}] }

\* CnbcParser.parse: the four `if re.search(...): tags.append(...)` in order
CnbcTagRules ==
    << [pattern |-> "gen ?z",        tag |-> "Gen Z"],
       [pattern |-> "millennials",   tag |-> "millennials"],
       [pattern |-> "social media",  tag |-> "social media"],
       [pattern |-> "mental health", tag |-> "mental health"] >>

RECURSIVE AppendTags(_, _, _)
AppendTags(tags, hits, n) ==
    IF n > Len(CnbcTagRules) THEN tags
    ELSE AppendTags(IF CnbcTagRules[n].pattern \in hits
                        THEN Append(tags, CnbcTagRules[n].tag)
                        ELSE tags,
                    hits, n + 1)

\* CnbcParser.parse, once the fetch has succeeded
CnbcParse(url, page) ==
    [original_url |-> url,
     source_name  |-> "CNBC",
     content      |-> page.ver,
     categories   |-> <<"Health Research", "Corporate Studies">>,
     tags         |-> AppendTags(<<"loneliness", "health", "Cigna", "survey">>,
                                 page.hits, 1)]

\* RootsOfLonelinessParser.parse, once the fetch has succeeded
RootsParse(url, page) ==
    [original_url |-> url,
     source_name  |-> "Roots Of Loneliness",
     content      |-> page.ver,
     categories   |-> <<"Statistics", "Loneliness Research">>,
     tags         |-> <<"loneliness", "statistics", "social isolation", "mental health">>]

\* parser.parse() of the class the dispatcher chose
StrategyParse(cls, url, page) ==
    IF cls = "CnbcParser" THEN CnbcParse(url, page) ELSE RootsParse(url, page)

----------------------------------------------------------------------------
(* Extraction, at the level of the parsed document.  A text is a sequence  *)
(* of tokens: words, punctuation and runs of whitespace.  self.soup holds  *)
(* what the strategies query: the first <h1>, the first heading whose      *)
(* class matches title|headline, the element with data-testid=publish-date,*)
(* the first element whose class matches author|byline, the text-bearing   *)
(* elements in document order (nodes), and the main content container as   *)
(* the run of nodes inside it.                                             *)

IsSpace(tok) == tok \in {" ", "  ", "\n", "\n\n"}

RECURSIVE LStrip(_)
LStrip(text) ==
    IF text # <<>> /\ IsSpace(Head(text)) THEN LStrip(Tail(text)) ELSE text

RECURSIVE RStrip(_)
RStrip(text) ==
    IF text # <<>> /\ IsSpace(text[Len(text)])
      THEN RStrip(SubSeq(text, 1, Len(text) - 1))
      ELSE text

\* str.strip()
Strip(text) == RStrip(LStrip(text))

\* str.lower(), on the tokens that have capitals
Lower(tok) ==
    CASE tok = "Updated"   -> "updated"
      [] tok = "Published" -> "published"
      [] tok = "Lonely"    -> "lonely"
      [] tok = "Social"    -> "social"
      [] tok = "Cigna"     -> "cigna"
      [] tok = "Gen"       -> "gen"
      [] tok = "GenZ"      -> "genz"
      [] tok = "Z"         -> "z"
      [] tok = "By"        -> "by"
      [] tok = "Health."   -> "health."
      [] OTHER             -> tok

\* the words of the regular expressions that occur inside a lower-case token
Stems(tok) ==
    CASE tok \in {"lonely", "lonely.", "loneliness"} -> {"lone"}
      [] tok \in {"isolated", "isolation."}           -> {"isolat"}
      [] tok \in {"social", "social."}                -> {"social"}
      [] tok \in {"health", "health."}                -> {"health"}
      [] tok \in {"cigna", "cigna."}                  -> {"cigna"}
      [] tok \in {"survey", "survey."}                -> {"survey"}
      [] tok \in {"media", "media."}                  -> {"media"}
      [] tok \in {"mental"}                           -> {"mental"}
      [] tok \in {"millennials", "millennials."}      -> {"millennials"}
      [] tok \in {"gen"}                              -> {"gen"}
      [] tok \in {"z", "z."}                          -> {"z"}
      [] tok \in {"genz", "genz."}                    -> {"genz"}
      [] tok \in {"updated", "updated:"}              -> {"updated"}
      [] tok \in {"published"}                        -> {"published"}
      [] tok \in {"by"}                               -> {"by"}
      [] OTHER                                        -> {}

\* `word in text` / re.search(word, text): the word occurs in some token;
\* with re.I or .lower() the text is lower-cased first
HasStem(text, words, ignorecase) ==
    \E k \in 1..Len(text) :
        /\ Stems(Lower(text[k])) \cap words # {}
        /\ ignorecase \/ Lower(text[k]) = text[k]

\* soup.find(...) found nothing
NoTag == [found |-> FALSE, text |-> <<>>]

Tag(text) == [found |-> TRUE, text |-> text]

GenericTitleCnbc  == <<"CNBC Article about Loneliness">>
GenericTitleRoots == <<"Loneliness Statistics">>

\* the try block of CnbcParser.extract_title (a Tag is truthy whatever it
\* contains)
CnbcTitle(soup) ==
    IF soup.h1.found THEN Strip(soup.h1.text)
    ELSE IF soup.headline.found THEN Strip(soup.headline.text)
    ELSE GenericTitleCnbc

\* the try block of RootsOfLonelinessParser.extract_title
RootsTitle(soup) ==
    IF soup.h1.found THEN Strip(soup.h1.text) ELSE GenericTitleRoots

\* extract_title of the class: its try block, or the except branch
extract_title(cls, soup, raises) ==
    IF cls = "CnbcParser"
      THEN IF raises THEN GenericTitleCnbc ELSE CnbcTitle(soup)
      ELSE IF raises THEN GenericTitleRoots ELSE RootsTitle(soup)

\* dates: what strptime(...).date() and timezone.now().date() give
Today    == [mon |-> "Nov", day |-> "2", year |-> "2026"]
NullDate == [mon |-> "", day |-> "", year |-> ""]

MonthsAbbr  == {"Jan", "May"}                 \* %b
MonthsFull  == {"January", "May"}             \* %B
Letters     == {"Jan", "May", "January", "Foo"}
Letters3    == {"Jan", "May", "Foo"}          \* [A-Za-z]{3}
DaysOfMonth == {"15"}                         \* %d
Digits12    == {"15", "99"}                   \* \d{1,2}
Years       == {"2020"}                       \* %Y, \d{4}

\* datetime.strptime(text, '<month> %d %Y') or, with comma, '<month> %d, %Y':
\* ok is FALSE where strptime raises ValueError
strptime(text, months, comma) ==
    LET n  == IF comma THEN 6 ELSE 5
        ok == /\ Len(text) = n
              /\ text[1] \in months
              /\ IsSpace(text[2])
              /\ text[3] \in DaysOfMonth
              /\ comma => text[4] = ","
              /\ IsSpace(text[n - 1])
              /\ text[n] \in Years
    IN  [ok   |-> ok,
         date |-> IF ok THEN [mon |-> text[1], day |-> text[3], year |-> text[n]]
                        ELSE NullDate]

\* re.search(r'(Published|Updated):?\s+([A-Za-z]{3}\s+\d{1,2},?\s+\d{4})', text)
\* tried at token k: group(2), or <<>> when there is no match at k
CnbcDateMatchAt(text, k) ==
    LET n == Len(text)
        a == IF k + 1 <= n /\ text[k + 1] = ":" THEN k + 2 ELSE k + 1
        e == IF a + 4 <= n /\ text[a + 4] = "," THEN a + 5 ELSE a + 4
    IN  IF /\ e + 1 <= n
           /\ text[k] \in {"Published", "Updated"}
           /\ IsSpace(text[a])
           /\ text[a + 1] \in Letters3
           /\ IsSpace(text[a + 2])
           /\ text[a + 3] \in Digits12
           /\ IsSpace(text[e])
           /\ text[e + 1] \in Years
          THEN SubSeq(text, a + 1, e + 1)
          ELSE <<>>

\* re.search(r'Updated: ([A-Za-z]+ \d+, \d{4})', text) tried at token k
RootsDateMatchAt(text, k) ==
    IF /\ k + 8 <= Len(text)
       /\ text[k] = "Updated" /\ text[k + 1] = ":" /\ text[k + 2] = " "
       /\ text[k + 3] \in Letters /\ text[k + 4] = " "
       /\ text[k + 5] \in Digits12
       /\ text[k + 6] = "," /\ text[k + 7] = " "
       /\ text[k + 8] \in Years
      THEN SubSeq(text, k + 3, k + 8)
      ELSE <<>>

\* re.search: the leftmost match
DateSearch(cls, text) ==
    LET At(k) == IF cls = "CnbcParser" THEN CnbcDateMatchAt(text, k)
                                       ELSE RootsDateMatchAt(text, k)
        ks    == {k \in 1..Len(text) : At(k) # <<>>}
    IN  IF ks = {} THEN <<>>
        ELSE At(CHOOSE k \in ks : \A j \in ks : k <= j)

\* CnbcParser.extract_publication_date: the for loop over
\* find_all(['time', 'span', 'p']), from node n on
RECURSIVE CnbcScanDates(_, _)
CnbcScanDates(nodes, n) ==
    IF n > Len(nodes) THEN [ok |-> FALSE, date |-> NullDate]
    ELSE IF /\ nodes[n].tag \in {"time", "span", "p"}
            /\ HasStem(nodes[n].text, {"published", "updated"}, TRUE)
            /\ DateSearch("CnbcParser", nodes[n].text) # <<>>
      THEN strptime(DateSearch("CnbcParser", nodes[n].text), MonthsAbbr, TRUE)
    ELSE CnbcScanDates(nodes, n + 1)

\* A mutation of the date extraction: nothing parseable gives no date.
CnbcPublicationDateOrNull(soup) ==
    IF soup.publish_date.found
      THEN strptime(Strip(soup.publish_date.text), MonthsAbbr, FALSE).date
      ELSE CnbcScanDates(soup.nodes, 1).date

\* CnbcParser.extract_publication_date without a failing query: the try
\* block, and the except branch where strptime raises
CnbcPublicationDate(soup) ==
    LET r == IF soup.publish_date.found
               THEN strptime(Strip(soup.publish_date.text), MonthsAbbr, FALSE)
               ELSE CnbcScanDates(soup.nodes, 1)
    IN  IF r.ok THEN r.date ELSE Today

\* RootsOfLonelinessParser.extract_publication_date: the for loop with its
\* break (the first element that mentions "updated"), the regular
\* expression, strptime; the except branch where strptime raises
RootsPublicationDate(soup) ==
    LET ks == {k \in 1..Len(soup.nodes) :
                 /\ soup.nodes[k].tag \in {"p", "div", "span"}
                 /\ HasStem(soup.nodes[k].text, {"updated"}, TRUE)}
        date_text == IF ks = {} THEN <<>>
                     ELSE soup.nodes[CHOOSE k \in ks : \A j \in ks : k <= j].text
        date_str  == DateSearch("RootsOfLonelinessParser", date_text)
        r         == strptime(date_str, MonthsFull, TRUE)
    IN  IF date_str # <<>> /\ r.ok THEN r.date ELSE Today

\* extract_publication_date of the class
extract_publication_date(cls, soup, raises) ==
    IF raises THEN Today
    ELSE IF cls = "CnbcParser" THEN CnbcPublicationDate(soup)
    ELSE RootsPublicationDate(soup)

NameTokens == {"Jane", "Doe", "Staff"}        \* tokens of [A-Za-z\.]+

\* the tokens [A-Za-z\s\.]+ takes, greedily, from token k on
RECURSIVE NameRun(_, _)
NameRun(text, k) ==
    IF k <= Len(text) /\ (text[k] \in NameTokens \/ IsSpace(text[k]))
      THEN <<text[k]>> \o NameRun(text, k + 1)
      ELSE <<>>

\* re.search(r'[bB]y\s+([A-Za-z\s\.]+)', text): group(1) of the leftmost
\* match, or <<>> when there is none
AuthorSearch(text) ==
    LET ks == {k \in 1..Len(text) :
                 /\ k + 2 <= Len(text)
                 /\ text[k] \in {"By", "by"}
                 /\ IsSpace(text[k + 1])
                 /\ text[k + 2] \in NameTokens}
    IN  IF ks = {} THEN <<>>
        ELSE NameRun(text, (CHOOSE k \in ks : \A j \in ks : k <= j) + 2)

\* 'by ' in elem.text.lower()
MentionsBy(text) ==
    \E k \in 1..(Len(text) - 1) :
        Lower(text[k]) = "by" /\ text[k + 1] \in {" ", "  "}

GenericAuthorCnbc == <<"CNBC Staff">>

\* CnbcParser.extract_author: the for loop over
\* find_all(['p', 'span', 'div']), from node n on
RECURSIVE CnbcScanAuthors(_, _)
CnbcScanAuthors(nodes, n) ==
    IF n > Len(nodes) THEN GenericAuthorCnbc
    ELSE IF /\ nodes[n].tag \in {"p", "span", "div"}
            /\ MentionsBy(nodes[n].text)
            /\ AuthorSearch(nodes[n].text) # <<>>
      THEN Strip(AuthorSearch(nodes[n].text))
    ELSE CnbcScanAuthors(nodes, n + 1)

\* CnbcParser.extract_author: its try block, or the except branch
extract_author(soup, raises) ==
    IF raises THEN GenericAuthorCnbc
    ELSE IF soup.byline.found THEN Strip(soup.byline.text)
    ELSE CnbcScanAuthors(soup.nodes, 1)

\* what the numeric patterns of extract_statistics find in a text
PercentTokens == {"40%", "25%"}
DigitTokens   == PercentTokens \cup {"1", "3", "15", "99", "2018", "2020"}

HasPercent(text) == \E k \in 1..Len(text) : text[k] \in PercentTokens

HasDigits(text)  == \E k \in 1..Len(text) : text[k] \in DigitTokens

\* \d+ percent | \d+ in \d+
HasRatio(text) ==
    \/ \E k \in 1..(Len(text) - 2) :
          /\ text[k] \in DigitTokens /\ text[k + 1] = " "
          /\ text[k + 2] = "percent"
    \/ \E k \in 1..(Len(text) - 4) :
          /\ text[k] \in DigitTokens /\ text[k + 1] = " " /\ text[k + 2] = "in"
          /\ text[k + 3] = " " /\ text[k + 4] \in DigitTokens

TopicWords  == {"lone", "isolat", "disconnect", "social"}
SurveyWords == {"cigna", "survey", "study", "report"}

\* the if / elif of CnbcParser.extract_statistics
CnbcIsStatistic(text) ==
    \/ HasPercent(text) /\ HasStem(text, TopicWords, TRUE)
    \/ /\ HasDigits(text)
       /\ HasStem(text, SurveyWords, TRUE)
       /\ HasStem(text, TopicWords, TRUE)

\* the if of RootsOfLonelinessParser.extract_statistics
RootsIsStatistic(text) == HasPercent(text) \/ HasRatio(text)

\* extract_statistics: the loop over find_all(['p', 'li']), from node n on
RECURSIVE ScanStatistics(_, _, _)
ScanStatistics(cls, nodes, n) ==
    IF n > Len(nodes) THEN <<>>
    ELSE LET text == Strip(nodes[n].text)
             keep == /\ nodes[n].tag \in {"p", "li"}
                     /\ IF cls = "CnbcParser" THEN CnbcIsStatistic(text)
                                              ELSE RootsIsStatistic(text)
         IN  (IF keep THEN <<text>> ELSE <<>>) \o ScanStatistics(cls, nodes, n + 1)

\* extract_statistics of the class: its try block, or the except branch
extract_statistics(cls, soup, raises) ==
    IF raises THEN <<>> ELSE ScanStatistics(cls, soup.nodes, 1)

\* sep.join(texts)
RECURSIVE Join(_, _)
Join(texts, sep) ==
    IF texts = <<>> THEN <<>>
    ELSE IF Len(texts) = 1 THEN texts[1]
    ELSE texts[1] \o <<sep>> \o Join(Tail(texts), sep)

\* len(text), in characters
RECURSIVE CharLen(_)
CharLen(text) == IF text = <<>> THEN 0 ELSE Len(Head(text)) + CharLen(Tail(text))

MinParagraphCnbc  == 30
MinParagraphRoots == 50

\* the texts extract_content joins: of the container's elements with one of
\* the class's tags, or of the <p> elements longer than the threshold
RECURSIVE ContentTexts(_, _, _, _)
ContentTexts(cls, soup, n, last) ==
    IF n > last THEN <<>>
    ELSE LET text == Strip(soup.nodes[n].text)
             keep ==
                IF soup.container.found
                  THEN /\ soup.nodes[n].tag \in
                            (IF cls = "CnbcParser"
                               THEN {"p", "h2", "h3", "blockquote"}
                               ELSE {"p", "h2", "h3", "ul", "ol"})
                       /\ text # <<>>
                  ELSE /\ soup.nodes[n].tag = "p"
                       /\ text # <<>>
                       /\ CharLen(text) > (IF cls = "CnbcParser"
                                             THEN MinParagraphCnbc
                                             ELSE MinParagraphRoots)
         IN  (IF keep THEN <<text>> ELSE <<>>)
                 \o ContentTexts(cls, soup, n + 1, last)

\* extract_content of the class: its try block, or the except branch
extract_content(cls, soup, raises) ==
    IF raises THEN <<>>
    ELSE IF soup.container.found
      THEN Join(ContentTexts(cls, soup, soup.container.first,
                             soup.container.last), "\n\n")
      ELSE Join(ContentTexts(cls, soup, 1, Len(soup.nodes)), "\n\n")

\* tokens that end in one of . ! ?
EndsSentence(tok) ==
    tok \in {"day.", "lonely.", "health.", "Health.", "text.", "social.",
             "media.", "isolation.", "millennials.", "fine!", "why?"}

\* re.split(r'(?<=[.!?])\s+', text), from token k on; cur is the piece begun
RECURSIVE SplitSentences(_, _, _)
SplitSentences(text, k, cur) ==
    IF k > Len(text) THEN <<cur>>
    ELSE IF IsSpace(text[k]) /\ k > 1 /\ EndsSentence(text[k - 1])
      THEN <<cur>> \o SplitSentences(text, k + 1, <<>>)
    ELSE SplitSentences(text, k + 1, Append(cur, text[k]))

Min(a, b) == IF a <= b THEN a ELSE b

\* A mutation of the slice: the whole list.
WholeList(seq, n) == seq

\* seq[:n]
FirstN(seq, n) == SubSeq(seq, 1, Min(n, Len(seq)))

CnbcMaxStats   == 3
RootsMaxStats  == 5
SummaryWindow  == 5
MaxRelevant    == 3

Bullet == "* "       \* the bullet character and a space
CnbcLeadIn  == "Key statistics of the Cigna loneliness study:"
RootsLeadIn == "Key loneliness statistics:"
CnbcGenericSummary  == <<"CNBC article on the Cigna loneliness study.">>
RootsGenericSummary == <<"Statistics on loneliness and social ties.">>

\* lead-in + "\n".join([f"(bullet) {stat}" for stat in selected_stats])
BulletSummary(lead, selected_stats) ==
    <<lead, "\n\n">> \o
        Join([n \in 1..Len(selected_stats) |-> <<Bullet>> \o selected_stats[n]],
             "\n")

SentenceWords == TopicWords \cup {"cigna", "health"}

\* A mutation of the sentence loop: every sentence of the window is taken.
RECURSIVE RelevantUnfiltered(_, _, _)
RelevantUnfiltered(sentences, n, acc) ==
    IF n > Len(sentences) THEN acc
    ELSE IF Len(Append(acc, sentences[n])) >= MaxRelevant
      THEN Append(acc, sentences[n])
    ELSE RelevantUnfiltered(sentences, n + 1, Append(acc, sentences[n]))

\* the for loop of CnbcParser.create_summary over sentences[:5], from
\* sentence n on
RECURSIVE RelevantSentences(_, _, _)
RelevantSentences(sentences, n, acc) ==
    IF n > Len(sentences) THEN acc
    ELSE LET next == IF HasStem(sentences[n], SentenceWords, TRUE)
                       THEN Append(acc, sentences[n]) ELSE acc
         IN  IF Len(next) >= MaxRelevant THEN next
             ELSE RelevantSentences(sentences, n + 1, next)

\* A mutation of create_summary: the sentences are preferred to the statistics.
CnbcSummarySentencesFirst(statistics, content) ==
    LET relevant == RelevantSentences(
                        FirstN(SplitSentences(content, 1, <<>>), SummaryWindow),
                        1, <<>>)
    IN  IF content # <<>> /\ relevant # <<>> THEN Join(relevant, " ")
        ELSE IF statistics # <<>>
          THEN BulletSummary(CnbcLeadIn, FirstN(statistics, CnbcMaxStats))
        ELSE CnbcGenericSummary

\* CnbcParser.create_summary
CnbcCreateSummary(statistics, content) ==
    LET relevant == RelevantSentences(
                        FirstN(SplitSentences(content, 1, <<>>), SummaryWindow),
                        1, <<>>)
    IN  IF statistics # <<>>
          THEN BulletSummary(CnbcLeadIn, FirstN(statistics, CnbcMaxStats))
        ELSE IF content # <<>> /\ relevant # <<>> THEN Join(relevant, " ")
        ELSE CnbcGenericSummary

\* RootsOfLonelinessParser.create_summary
RootsCreateSummary(statistics) ==
    IF statistics = <<>> THEN RootsGenericSummary
    ELSE BulletSummary(RootsLeadIn, FirstN(statistics, RootsMaxStats))

\* the create_summary call of parse() of the class
create_summary(cls, statistics, content) ==
    IF cls = "CnbcParser" THEN CnbcCreateSummary(statistics, content)
    ELSE RootsCreateSummary(statistics)

\* re.search(pattern, content, re.I) for the patterns of CnbcParser.parse
PatternFound(pattern, content) ==
    LET Two(first, second) ==
            \E k \in 1..(Len(content) - 2) :
                /\ Lower(content[k]) = first
                /\ content[k + 1] = " "
                /\ second \in Stems(Lower(content[k + 2]))
    IN  CASE pattern = "gen ?z" ->
                \/ HasStem(content, {"genz"}, TRUE)
                \/ Two("gen", "z")
          [] pattern = "millennials"   -> HasStem(content, {"millennials"}, TRUE)
          [] pattern = "social media"  -> Two("social", "media")
          [] pattern = "mental health" -> Two("mental", "health")
          [] OTHER -> FALSE

\* the patterns of CnbcTagRules that occur in the content
PatternsFound(content) ==
    {CnbcTagRules[n].pattern : n \in {m \in 1..Len(CnbcTagRules) :
                                   PatternFound(CnbcTagRules[m].pattern, content)}}

CnbcBaseTags  == <<"loneliness", "health", "Cigna", "survey">>
RootsBaseTags == <<"loneliness", "statistics", "social isolation", "mental health">>

\* A mutation of the tag lines: a tag is appended once per occurrence.
CnbcTagsPerOccurrence(content) ==
    LET once == AppendTags(CnbcBaseTags, PatternsFound(content), 1)
        more == {k \in 1..(Len(content) - 2) :
                    /\ Lower(content[k]) = "social" /\ content[k + 1] = " "
                    /\ "media" \in Stems(Lower(content[k + 2]))}
    IN  IF Cardinality(more) > 1 THEN Append(once, "social media") ELSE once

\* the tags lines of CnbcParser.parse
CnbcTags(content) == AppendTags(CnbcBaseTags, PatternsFound(content), 1)

\* the dict parse() of the class returns, from its locals
ParseResult(cls, url, f) ==
    [title             |-> f.title,
     summary           |-> f.summary,
     source_name       |-> IF cls = "CnbcParser" THEN "CNBC"
                                                 ELSE "Roots Of Loneliness",
     original_url      |-> url,
     publication_date  |-> f.publication_date,
     authors           |-> IF cls = "CnbcParser" THEN f.author
                                                 ELSE <<"Roots Of Loneliness Team">>,
     full_text_content |-> f.content,
     categories        |-> IF cls = "CnbcParser"
                             THEN <<"Health Research", "Corporate Studies">>
                             ELSE <<"Statistics", "Loneliness Research">>,
     tags              |-> IF cls = "CnbcParser" THEN CnbcTags(f.content)
                                                 ELSE RootsBaseTags]

\* Documents handed to the strategies

NoContainer == [found |-> FALSE, first |-> 1, last |-> 0]

Node(tag, text) == [tag |-> tag, text |-> text]

\* a page with an <h1> and nothing else the strategies look for
PlainSoup ==
    [h1 |-> Tag(<<"T">>), headline |-> NoTag, publish_date |-> NoTag,
     byline |-> NoTag, nodes |-> <<>>, container |-> NoContainer]

\* headings: absent, or with a text of blanks and letters
Headings ==
    {NoTag} \cup {Tag(t) : t \in UNION {[1..n -> {" ", "T"}] : n \in 0..MaxHeadingLen}}

TitleSoups ==
    {[PlainSoup EXCEPT !.h1 = a, !.headline = b] : a \in Headings, b \in Headings}

\* texts that mention a date, or pretend to
DateTexts ==
    { <<"Updated", ":", " ", "January", " ", "15", ",", " ", "2020">>,
      <<"Updated", ":", " ", "May", " ", "15", ",", " ", "2020">>,
      <<"Published", " ", "Jan", " ", "15", ",", " ", "2020">>,
      <<"Updated", " ", "Jan", " ", "15", " ", "2020">>,
      <<"Updated", ":", " ", "Foo", " ", "99", ",", " ", "2020">>,
      <<"updated", " ", "soon">>,
      <<"Updated", ":", "  ", "May", " ", "15", ",", " ", "2020">>,
      <<"Plain", " ", "text.">> }

DateNodes == {Node(tag, t) : tag \in {"p", "time", "div"}, t \in DateTexts}

\* texts of the element with data-testid=publish-date
PublishDates ==
    { NoTag,
      Tag(<<"Jan", " ", "15", " ", "2020">>),
      Tag(<<" ", "May", " ", "15", " ", "2020", "\n">>),
      Tag(<<"Jan", " ", "15", ",", " ", "2020">>),
      Tag(<<"January", " ", "15", " ", "2020">>),
      Tag(<<>>) }

DateSoups ==
    {[PlainSoup EXCEPT !.nodes = ns] :
        ns \in UNION {[1..n -> DateNodes] : n \in 0..MaxDateNodes}}
    \cup
    {[PlainSoup EXCEPT !.publish_date = e, !.nodes = ns] :
        e \in PublishDates,
        ns \in {<<>>, <<Node("p", <<"Published", " ", "Jan", " ", "15", ",",
                                    " ", "2020">>)>>}}

AuthorSoups ==
    {[PlainSoup EXCEPT !.byline = e, !.nodes = ns] :
        e \in {NoTag, Tag(<<>>), Tag(<<" ", "Jane", " ", "Doe">>)},
        ns \in {<<>>,
                <<Node("p", <<"By", " ", "Jane", " ", "Doe", " ", "2020">>)>>,
                <<Node("p", <<"by", " ", "2020">>),
                  Node("li", <<"By", " ", "Staff">>),
                  Node("div", <<"Written", " ", "by", " ", "Doe">>)>>}}

\* elements with and without numeric data
StatNodes ==
    { Node("li",  <<"40%", " ", "lonely.">>),
      Node("p",   <<" ", "Cigna", " ", "2018", " ", "social">>),
      Node("p",   <<"1", " ", "in", " ", "3">>) }

StatSoups ==
    {[PlainSoup EXCEPT !.nodes = ns,
                       !.container = [found |-> TRUE, first |-> 1, last |-> Len(ns)]] :
        ns \in UNION {[1..n -> StatNodes] : n \in 0..MaxStatNodes}}

\* blocks of a body without numeric data
BodyNodes ==
    { Node("p",  <<"Lonely", " ", "day.">>),
      Node("p",  <<"Plain", " ", "text.">>),
      Node("h2", <<"Social", " ", "media">>),
      Node("p",  <<"mental", " ", "health.", " ", "fine!">>),
      Node("p",  <<"GenZ", " ", "millennials.">>) }

BodySoups ==
    {[PlainSoup EXCEPT !.nodes = ns,
                       !.container = [found |-> TRUE, first |-> 1, last |-> Len(ns)]] :
        ns \in UNION {[1..n -> BodyNodes] : n \in 0..MaxBlocks}}

\* elements outside any container, with paragraphs of 31 and of 53 characters
ParagraphNodes ==
    { Node("p",  <<"Thirty-five", " ", "characters", " ", "of", " ", "text.">>),
      Node("p",  <<"More", " ", "than", " ", "fifty", " ", "characters", " ",
                   "of", " ", "paragraph", " ", "text", " ", "is", " ", "here.">>),
      Node("li", <<"More", " ", "than", " ", "fifty", " ", "characters", " ",
                   "of", " ", "paragraph", " ", "text", " ", "is", " ", "here.">>),
      Node("p",  <<"Plain", " ", "text.">>),
      Node("div", <<"25%", " ", "isolated">>),
      Node("p",   <<"3", " ", "percent", " ", "lonely">>) }

ParagraphSoups ==
    {[PlainSoup EXCEPT !.nodes = ns] :
        ns \in UNION {[1..n -> ParagraphNodes] : n \in 0..MaxParagraphs}}

Soups == TitleSoups \cup DateSoups \cup AuthorSoups \cup StatSoups
             \cup BodySoups \cup ParagraphSoups

Classes == {parsers[n].parser_class : n \in 1..Len(parsers)}

NoSelf  == [cls |-> NoParser, url |-> <<>>, soup |-> PlainSoup]
NoFrame == [title |-> <<>>, publication_date |-> NullDate, author |-> <<>>,
            statistics |-> <<>>, content |-> <<>>, summary |-> <<>>]
NoResult == [title |-> <<>>, summary |-> <<>>, source_name |-> "",
             original_url |-> <<>>, publication_date |-> NullDate,
             authors |-> <<>>, full_text_content |-> <<>>,
             categories |-> <<>>, tags |-> <<>>]

----------------------------------------------------------------------------
(* Taxonomy: django.utils.text.slugify on the names the strategies emit,   *)
(* and Category/Tag.objects.get_or_create(slug=..., defaults={name}).      *)

slugify(name) ==
    CASE name = "Health Research"     -> "health-research"
      [] name = "Corporate Studies"   -> "corporate-studies"
      [] name = "Statistics"          -> "statistics"
      [] name = "Loneliness Research" -> "loneliness-research"
      [] name = "loneliness"          -> "loneliness"
      [] name = "health"              -> "health"
      [] name = "Cigna"               -> "cigna"
      [] name = "survey"              -> "survey"
      [] name = "Gen Z"               -> "gen-z"
      [] name = "millennials"         -> "millennials"
      [] name = "social media"        -> "social-media"
      [] name = "mental health"       -> "mental-health"
      [] name = "statistics"          -> "statistics"
      [] name = "social isolation"    -> "social-isolation"
      [] OTHER                        -> name

\* A mutation of get_or_create: update_or_create, the stored row takes the
\* name it was looked up for.
update_or_create(rows, slug, name) ==
    IF \E r \in rows : r.slug = slug
        THEN [rows |-> {r \in rows : r.slug # slug} \cup
                           {[name |-> name, slug |-> slug]},
              obj |-> slug, ok |-> TRUE]
    ELSE IF \E r \in rows : r.name = name
        THEN [rows |-> rows, obj |-> "", ok |-> FALSE]
    ELSE [rows |-> rows \cup {[name |-> name, slug |-> slug]},
          obj |-> slug, ok |-> TRUE]

\* get_or_create: the row with this slug if there is one; otherwise INSERT,
\* which the unique name column refuses (IntegrityError) when the name is taken
get_or_create(rows, slug, name) ==
    IF \E r \in rows : r.slug = slug
        THEN [rows |-> rows, obj |-> slug, ok |-> TRUE]
    ELSE IF \E r \in rows : r.name = name
        THEN [rows |-> rows, obj |-> "", ok |-> FALSE]
    ELSE [rows |-> rows \cup {[name |-> name, slug |-> slug]},
          obj |-> slug, ok |-> TRUE]

\* The `for cat_name in data['categories']` / `for tag_name in data['tags']`
\* loops of save_to_db; failAt = k > 0 makes the k-th statement raise.
RECURSIVE ResolveNames(_, _, _, _, _)
ResolveNames(rows, names, k, acc, failAt) ==
    IF k > Len(names) THEN [rows |-> rows, objs |-> acc, error |-> ""]
    ELSE IF k = failAt THEN [rows |-> rows, objs |-> acc, error |-> "database"]
    ELSE LET g == get_or_create(rows, slugify(names[k]), names[k])
         IN  IF ~g.ok THEN [rows |-> rows, objs |-> acc, error |-> "integrity"]
             ELSE ResolveNames(g.rows, names, k + 1, Append(acc, g.obj), failAt)

Range(s) == {s[k] : k \in 1..Len(s)}

----------------------------------------------------------------------------
(* Article table *)

\* A mutation of the URL comparison: no stored row ever compares equal.
UrlNeverEq(row, url) == FALSE

\* A mutation of the URL comparison: URLs of one host compare equal.
UrlEqHost(row, url) == row.original_url[1] = url[1]

\* equality on the original_url column, as used by filter(original_url=...)
\* and by the column's unique index
UrlEq(row, url) == row.original_url = url

\* Article.objects.filter(original_url=url).first(): primary key or None
FirstByUrl(arts, url) ==
    IF \E a \in arts : UrlEq(a, url)
        THEN (CHOOSE a \in arts : UrlEq(a, url)).id
        ELSE None

\* A mutation of the column: original_url carries no unique index.
UniqueViolationNone(arts, url) == FALSE

\* unique=True on original_url: the INSERT raises IntegrityError
UniqueViolation(arts, url) == \E a \in arts : UrlEq(a, url)

Row(arts, id) == CHOOSE a \in arts : a.id = id

\* A mutation of Article.save: _original_status stays what __init__ made it.
ArticleSaveKeepOriginal(status, original_status, published_at, now) ==
    LET is_publishing_now ==
            status = STATUS_PUBLISHED /\ original_status # STATUS_PUBLISHED
    IN  [published_at    |-> IF is_publishing_now /\ published_at = None
                                 THEN now ELSE published_at,
         original_status |-> original_status]

\* A mutation of Article.save: the publication is never stamped.
ArticleSaveNoStamp(status, original_status, published_at, now) ==
    [published_at |-> published_at, original_status |-> status]

\* Article.save: published_at and _original_status, from the instance's
\* status, its _original_status and its published_at
ArticleSave(status, original_status, published_at, now) ==
    LET is_publishing_now ==
            status = STATUS_PUBLISHED /\ original_status # STATUS_PUBLISHED
    IN  [published_at    |-> IF is_publishing_now /\ published_at = None
                                 THEN now ELSE published_at,
         original_status |-> status]

\* A mutation of the insert: the new row awaits review instead of being a draft.
NewArticleRowPending(id, d) ==
    [id           |-> id,
     original_url |-> d.original_url,
     source_name  |-> d.source_name,
     content      |-> d.content,
     status       |-> STATUS_PENDING,
     published_at |-> None,
     categories   |-> {},
     tags         |-> {}]

\* the row Article.objects.create(..., status=Article.STATUS_DRAFT) inserts
NewArticleRow(id, d) ==
    LET s == ArticleSave(STATUS_DRAFT, STATUS_DRAFT, None, 1)
    IN  [id           |-> id,
         original_url |-> d.original_url,
         source_name  |-> d.source_name,
         content      |-> d.content,
         status       |-> STATUS_DRAFT,
         published_at |-> s.published_at,
         categories   |-> {},
         tags         |-> {}]

----------------------------------------------------------------------------
(* Category and Tag instances (SlugMixin).  A name or a slug is a string   *)
(* in run-length form: a sequence of runs [ch, n], n copies of one         *)
(* character.  A character stands for its class: "A" an upper-case letter, *)
(* "a" and "b" lower-case letters, " " whitespace, "-" the hyphen, "!"     *)
(* punctuation, "U+044F" a letter outside ASCII.                           *)

Run(ch, n) == [ch |-> ch, n |-> n]

\* concatenation in run-length form: adjacent runs of one character merge
RECURSIVE Pack(_)
Pack(runs) ==
    IF runs = <<>> THEN <<>>
    ELSE LET r    == Head(runs)
             rest == Pack(Tail(runs))
         IN  IF r.n = 0 THEN rest
             ELSE IF rest # <<>> /\ Head(rest).ch = r.ch
                 THEN <<Run(r.ch, r.n + Head(rest).n)>> \o Tail(rest)
             ELSE <<r>> \o rest

\* len(s)
RECURSIVE StrLen(_)
StrLen(runs) == IF runs = <<>> THEN 0 ELSE Head(runs).n + StrLen(Tail(runs))

\* A mutation of the slice: the whole string.
Untruncated(runs, n) == runs

\* s[:n]
RECURSIVE Prefix(_, _)
Prefix(runs, n) ==
    IF runs = <<>> \/ n <= 0 THEN <<>>
    ELSE IF Head(runs).n >= n THEN <<Run(Head(runs).ch, n)>>
    ELSE <<Head(runs)>> \o Prefix(Tail(runs), n - Head(runs).n)

\* s.strip(chars)
RECURSIVE StripChars(_, _)
StripChars(runs, chars) ==
    IF runs # <<>> /\ Head(runs).ch \in chars
        THEN StripChars(Tail(runs), chars)
    ELSE IF runs # <<>> /\ runs[Len(runs)].ch \in chars
        THEN StripChars(SubSeq(runs, 1, Len(runs) - 1), chars)
    ELSE runs

LowerChar(ch)       == IF ch = "A" THEN "a" ELSE ch
IsAscii(ch)         == ch # "U+044F"
IsWordChar(ch)      == ch \in {"A", "a", "b", "_"}
IsHyphenOrSpace(ch) == ch \in {"-", " "}

\* django.utils.text.slugify(value): NFKD to ASCII, lower(), drop what is not
\* [\w\s-], every run of hyphens and whitespace to one hyphen, strip("-_")
SlugifyRuns(value) ==
    LET ascii  == SelectSeq(value, LAMBDA r : IsAscii(r.ch))
        lower  == [k \in 1..Len(ascii) |-> Run(LowerChar(ascii[k].ch), ascii[k].n)]
        kept   == SelectSeq(lower, LAMBDA r : IsWordChar(r.ch) \/ IsHyphenOrSpace(r.ch))
        hyphen == Pack([k \in 1..Len(kept) |->
                          IF IsHyphenOrSpace(kept[k].ch)
                            THEN Run("-", kept[k].n) ELSE kept[k]])
        single == [k \in 1..Len(hyphen) |->
                     IF hyphen[k].ch = "-" THEN Run("-", 1) ELSE hyphen[k]]
    IN  StripChars(single, {"-", "_"})

NameMaxLen == 100     \* name = models.CharField(max_length=100)
SlugMaxLen == 110     \* slug = models.SlugField(max_length=110)

\* A mutation of SlugMixin.save: the slug follows the name at every save.
SlugMixinSaveAlways(inst) ==
    [inst EXCEPT !.slug = Prefix(SlugifyRuns(inst.name), SlugMaxLen)]

\* SlugMixin.save up to super().save(): the instance that is written
SlugMixinSave(inst) ==
    IF inst.slug = <<>> /\ inst.name # <<>>
        THEN [inst EXCEPT !.slug = Prefix(SlugifyRuns(inst.name), SlugMaxLen)]
        ELSE inst

\* super().save(): the INSERT or UPDATE; a value longer than its varchar
\* column is refused by the database
ModelSaveError(inst) ==
    IF StrLen(inst.name) > NameMaxLen \/ StrLen(inst.slug) > SlugMaxLen
        THEN "DataError" ELSE ""

\* names: two words around a blank, and three names with blanks and hyphens
\* in other places
NameWords == {<<Run("A", 1)>>, <<Run("!", 1)>>, <<Run("U+044F", 1)>>,
              <<Run("A", LongRun)>>}
Names ==
    {<<>>, <<Run(" ", 1), Run("A", 1)>>,
     <<Run("A", 1), Run("-", 1), Run(" ", 1), Run("b", 1)>>}
      \cup {Pack(w1 \o <<Run(" ", 1)>> \o w2) :
                w1 \in NameWords, w2 \in NameWords \ {<<Run("U+044F", 1)>>}}

\* an explicit slug ("b-b")
CustomSlug == <<Run("b", 1), Run("-", 1), Run("b", 1)>>
SlugInputs == {<<>>, CustomSlug}

TaxonomyModels == {"Category", "Tag"}

NoEntity == [model |-> "", pk |-> None, name |-> <<>>, slug |-> <<>>]
NoRow    == [name |-> <<>>, slug |-> <<>>, pk |-> None]
NoSave   == [op |-> "none"]
NoObjs   == <<>>

OrmIdle ==
    /\ instance = NoEntity /\ stored = NoRow
    /\ objs = NoObjs /\ clock = 1 /\ lastsave = NoSave

NoWorkers == <<>>

----------------------------------------------------------------------------
(* Inputs *)

UrlCnbc == <<"cnbc", ".com", "/x">>
UrlBoth == <<"cnbc", ".com", "rootsofloneliness", ".com">>
UrlNone == <<"/x", ".com">>
UrlPool == {UrlCnbc, UrlBoth, UrlNone}

BatchInputs(max) == UNION { [1..n -> UrlPool] : n \in 0..max }

\* records a strategy can hand to save_to_db
Records ==
    { StrategyParse(get_parser_for_url(u), u, p) :
        u \in {v \in UrlPool : get_parser_for_url(v) # NoParser}, p \in Pages }

Snapshot == [articles |-> articles, categories |-> categories, tagrows |-> tagrows]

\* where a persistence error may be raised in a loop of n statements (0: nowhere)
FailPoints(n) == IF faults < MaxFaults THEN 0..n ELSE {0}
FaultChoice   == IF faults < MaxFaults THEN {FALSE, TRUE} ELSE {FALSE}

\* what requests.get / raise_for_status can give: an exception (non-2xx,
\* network error, timeout) or the markup of a page
Responses ==
    {[status |-> "error", page |-> [ver |-> "", hits |-> {}]]} \cup
    {[status |-> "ok", page |-> p] : p \in Pages}

\* A mutation of fetch_content: a failed GET is issued a second time.
fetch_content_retry(response) ==
    [ok |-> response.status = "ok",
     requests |-> IF response.status = "ok" THEN 1 ELSE 2]

\* BaseParser.fetch_content: one requests.get; any exception gives False
fetch_content(response) ==
    [ok |-> response.status = "ok", requests |-> 1]

\* A mutation of the dict store: an existing key is deleted and re-inserted.
DictSetMoveToEnd(d, k, v) ==
    Append(SelectSeq(d, LAMBDA e : e[1] # k), <<k, v>>)

\* results[url] = article on a Python dict: a present key keeps its position
DictSet(d, k, v) ==
    IF \E n \in 1..Len(d) : d[n][1] = k
        THEN [n \in 1..Len(d) |-> IF d[n][1] = k THEN <<k, v>> ELSE d[n]]
        ELSE Append(d, <<k, v>>)

DictKeys(d) == [n \in 1..Len(d) |-> d[n][1]]
DictHas(d, k) == \E n \in 1..Len(d) : d[n][1] = k
DictGet(d, k) == d[CHOOSE n \in 1..Len(d) : d[n][1] = k][2]

\* how processing of the current URL ended (read when pc = "returned")
Path ==
    IF entry # "save_to_db" /\ parser = NoParser THEN "unsupported"
    ELSE IF data = EmptyDict THEN "fetch_failed"
    ELSE IF faulted # "" THEN "commit_failed"
    ELSE IF article = NoInstance THEN "dedup"
    ELSE "created"

----------------------------------------------------------------------------
(* Initial state: an empty database, no call in progress *)

Idle ==
    /\ entry = "none" /\ urls = <<>> /\ i = 0 /\ results = <<>>
    /\ pc = "idle" /\ parser = NoParser /\ data = EmptyDict
    /\ cat_objs = <<>> /\ tag_objs = <<>> /\ article = NoInstance /\ ret = None
    /\ gets = 0 /\ pre = [articles |-> {}, categories |-> {}, tagrows |-> {}]
    /\ faulted = "" /\ outcomes = <<>>

Init ==
    /\ articles = {} /\ categories = {} /\ tagrows = {} /\ nextId = 1
    /\ Idle
    /\ faults = 0 /\ processed = 0 /\ edits = 0
    /\ durl = <<>> /\ dparser = "unset"
    /\ self = NoSelf /\ xpc = "none" /\ raised = ""
    /\ frame = NoFrame /\ result = NoResult
    /\ OrmIdle
    /\ workers = NoWorkers

----------------------------------------------------------------------------
(* Entry points *)

\* ParserManager.parse_multiple_urls(urls): results = {}, then the for loop
StartBatch ==
    /\ pc = "idle"
    /\ \E us \in BatchInputs(MaxUrls - processed) :
        /\ urls' = us
        /\ processed' = processed + Len(us)
        /\ i' = IF Len(us) = 0 THEN 0 ELSE 1
        /\ pc' = IF Len(us) = 0 THEN "done" ELSE "resolve"
    /\ entry' = "parse_multiple_urls"
    /\ results' = <<>>
    /\ UNCHANGED <<storeVars, parser, data, cat_objs, tag_objs, article, ret,
                   histVars, faults, edits, dispVars, extractVars, ormVars, concVars>>

\* BaseParser.save_to_db(data), called on its own with an extracted record
StartCommit ==
    /\ pc = "idle" /\ processed < MaxUrls
    /\ \E d \in Records : data' = d
    /\ pc' = "s_cats"
    /\ entry' = "save_to_db"
    /\ pre' = Snapshot
    /\ processed' = processed + 1
    /\ UNCHANGED <<storeVars, urls, i, results, parser, cat_objs, tag_objs,
                   article, ret, gets, faulted, outcomes, faults, edits, dispVars, extractVars, ormVars, concVars>>

----------------------------------------------------------------------------
(* parse_url *)

\* parser = self.get_parser_for_url(url); if not parser: return None
Resolve ==
    /\ pc = "resolve"
    /\ parser' = get_parser_for_url(urls[i])
    /\ pc' = IF parser' = NoParser THEN "returned" ELSE "parse"
    /\ ret' = None
    /\ data' = EmptyDict /\ cat_objs' = <<>> /\ tag_objs' = <<>>
    /\ article' = NoInstance
    /\ gets' = 0 /\ pre' = Snapshot /\ faulted' = ""
    /\ UNCHANGED <<storeVars, entry, urls, i, results, outcomes, envVars, dispVars, extractVars, ormVars, concVars>>

\* data = parser.parse(); if not data: return None
\* (parse: `if not self.soup and not self.fetch_content(): return {}`)
Parse ==
    /\ pc = "parse"
    /\ \E response \in Responses :
        LET f == fetch_content(response)
        IN  /\ gets' = gets + f.requests
            /\ IF f.ok
                 THEN /\ data' = StrategyParse(parser, urls[i], response.page)
                      /\ pc' = "s_cats"
                 ELSE /\ data' = EmptyDict
                      /\ pc' = "returned"
    /\ ret' = None
    /\ UNCHANGED <<storeVars, entry, urls, i, results, parser, cat_objs, tag_objs,
                   article, pre, faulted, outcomes, envVars, dispVars, extractVars, ormVars, concVars>>

----------------------------------------------------------------------------
(* save_to_db, statement by statement.  No statement runs in a transaction *)
(* that outlives it, so what a statement wrote stays when a later one      *)
(* raises.                                                                 *)

\* except Exception as e: logger.error(...); return None
Raised(kind) ==
    /\ ret' = None
    /\ pc' = "returned"
    /\ faulted' = kind

\* the loop over data['categories']
SaveCats ==
    /\ pc = "s_cats"
    /\ \E failAt \in FailPoints(Len(data.categories)) :
        LET r == ResolveNames(categories, data.categories, 1, <<>>, failAt)
        IN  /\ categories' = r.rows
            /\ faults' = IF r.error = "database" THEN faults + 1 ELSE faults
            /\ IF r.error = ""
                 THEN /\ cat_objs' = r.objs
                      /\ pc' = "s_tags"
                      /\ UNCHANGED <<ret, faulted>>
                 ELSE /\ Raised(r.error)
                      /\ UNCHANGED cat_objs
    /\ UNCHANGED <<articles, tagrows, nextId, entry, urls, i, results, parser,
                   data, tag_objs, article, gets, pre, outcomes, processed, edits,
                   dispVars, extractVars, ormVars, concVars>>

\* the loop over data['tags']
SaveTags ==
    /\ pc = "s_tags"
    /\ \E failAt \in FailPoints(Len(data.tags)) :
        LET r == ResolveNames(tagrows, data.tags, 1, <<>>, failAt)
        IN  /\ tagrows' = r.rows
            /\ faults' = IF r.error = "database" THEN faults + 1 ELSE faults
            /\ IF r.error = ""
                 THEN /\ tag_objs' = r.objs
                      /\ pc' = "s_check"
                      /\ UNCHANGED <<ret, faulted>>
                 ELSE /\ Raised(r.error)
                      /\ UNCHANGED tag_objs
    /\ UNCHANGED <<articles, categories, nextId, entry, urls, i, results, parser,
                   data, cat_objs, article, gets, pre, outcomes, processed, edits,
                   dispVars, extractVars, ormVars, concVars>>

\* A mutation of the existence check: update-on-conflict, the stored row takes
\* the newly extracted fields before it is returned.
SaveCheckUpdate ==
    /\ pc = "s_check"
    /\ \E fault \in FaultChoice :
        /\ faults' = IF fault THEN faults + 1 ELSE faults
        /\ IF fault
             THEN /\ Raised("database")
                  /\ UNCHANGED articles
             ELSE LET existing_article == FirstByUrl(articles, data.original_url)
                  IN  /\ ret' = existing_article
                      /\ pc' = IF existing_article # None THEN "returned" ELSE "s_create"
                      /\ articles' =
                            { IF a.id = existing_article
                                THEN [a EXCEPT !.content = data.content]
                                ELSE a : a \in articles }
                      /\ UNCHANGED faulted
    /\ UNCHANGED <<categories, tagrows, nextId, entry, urls, i, results, parser,
                   data, cat_objs, tag_objs, article, gets, pre, outcomes,
                   processed, edits, dispVars, extractVars, ormVars, concVars>>

\* A mutation of the existence check: the lookup is made but its result is
\* ignored, so the commit always goes on to create the row.
SaveCheckNoDedup ==
    /\ pc = "s_check"
    /\ \E fault \in FaultChoice :
        /\ faults' = IF fault THEN faults + 1 ELSE faults
        /\ IF fault
             THEN Raised("database")
             ELSE /\ pc' = "s_create"
                  /\ UNCHANGED <<ret, faulted>>
    /\ UNCHANGED <<storeVars, entry, urls, i, results, parser, data, cat_objs,
                   tag_objs, article, gets, pre, outcomes, processed, edits, dispVars, extractVars, ormVars, concVars>>

\* existing_article = Article.objects.filter(original_url=...).first()
\* if existing_article: return existing_article
SaveCheck ==
    /\ pc = "s_check"
    /\ \E fault \in FaultChoice :
        /\ faults' = IF fault THEN faults + 1 ELSE faults
        /\ IF fault
             THEN Raised("database")
             ELSE LET existing_article == FirstByUrl(articles, data.original_url)
                  IN  /\ ret' = existing_article
                      /\ pc' = IF existing_article # None THEN "returned" ELSE "s_create"
                      /\ UNCHANGED faulted
    /\ UNCHANGED <<storeVars, entry, urls, i, results, parser, data, cat_objs,
                   tag_objs, article, gets, pre, outcomes, processed, edits, dispVars, extractVars, ormVars, concVars>>

\* article = Article.objects.create(..., status=Article.STATUS_DRAFT)
SaveCreate ==
    /\ pc = "s_create"
    /\ \E fault \in FaultChoice :
        /\ faults' = IF fault THEN faults + 1 ELSE faults
        /\ IF fault \/ UniqueViolation(articles, data.original_url)
             THEN /\ Raised(IF fault THEN "database" ELSE "integrity")
                  /\ UNCHANGED <<articles, nextId, article>>
             ELSE /\ articles' = articles \cup {NewArticleRow(nextId, data)}
                  /\ nextId' = nextId + 1
                  /\ article' = [id |-> nextId, original_status |-> STATUS_DRAFT]
                  /\ pc' = "s_addcats"
                  /\ UNCHANGED <<ret, faulted>>
    /\ UNCHANGED <<categories, tagrows, entry, urls, i, results, parser, data,
                   cat_objs, tag_objs, gets, pre, outcomes, processed, edits, dispVars, extractVars, ormVars, concVars>>

\* if categories: article.categories.add(*categories)
SaveAddCats ==
    /\ pc = "s_addcats"
    /\ \E fault \in (IF cat_objs = <<>> THEN {FALSE} ELSE FaultChoice) :
        /\ faults' = IF fault THEN faults + 1 ELSE faults
        /\ IF fault
             THEN /\ Raised("database")
                  /\ UNCHANGED articles
             ELSE /\ articles' =
                        { IF a.id = article.id
                            THEN [a EXCEPT !.categories = @ \cup Range(cat_objs)]
                            ELSE a : a \in articles }
                  /\ pc' = "s_addtags"
                  /\ UNCHANGED <<ret, faulted>>
    /\ UNCHANGED <<categories, tagrows, nextId, entry, urls, i, results, parser,
                   data, cat_objs, tag_objs, article, gets, pre, outcomes, processed,
                   edits, dispVars, extractVars, ormVars, concVars>>

\* A mutation of the tag attachment: the statement is passed over.
SaveAddTagsSkipped ==
    /\ pc = "s_addtags"
    /\ pc' = "s_save"
    /\ UNCHANGED <<storeVars, entry, urls, i, results, parser, data, cat_objs,
                   tag_objs, article, ret, histVars, envVars, dispVars,
                   extractVars, ormVars, concVars>>

\* if tags: article.tags.add(*tags)
SaveAddTags ==
    /\ pc = "s_addtags"
    /\ \E fault \in (IF tag_objs = <<>> THEN {FALSE} ELSE FaultChoice) :
        /\ faults' = IF fault THEN faults + 1 ELSE faults
        /\ IF fault
             THEN /\ Raised("database")
                  /\ UNCHANGED articles
             ELSE /\ articles' =
                        { IF a.id = article.id
                            THEN [a EXCEPT !.tags = @ \cup Range(tag_objs)]
                            ELSE a : a \in articles }
                  /\ pc' = "s_save"
                  /\ UNCHANGED <<ret, faulted>>
    /\ UNCHANGED <<categories, tagrows, nextId, entry, urls, i, results, parser,
                   data, cat_objs, tag_objs, article, gets, pre, outcomes, processed,
                   edits, dispVars, extractVars, ormVars, concVars>>

\* article.save(); return article
SaveFinal ==
    /\ pc = "s_save"
    /\ \E fault \in FaultChoice :
        /\ faults' = IF fault THEN faults + 1 ELSE faults
        /\ IF fault
             THEN /\ Raised("database")
                  /\ UNCHANGED <<articles, article>>
             ELSE LET row == Row(articles, article.id)
                      s   == ArticleSave(row.status, article.original_status,
                                         row.published_at, edits + 1)
                  IN  /\ articles' = (articles \ {row}) \cup
                                       {[row EXCEPT !.published_at = s.published_at]}
                      /\ article' = [article EXCEPT !.original_status = s.original_status]
                      /\ ret' = article.id
                      /\ pc' = "returned"
                      /\ UNCHANGED faulted
    /\ UNCHANGED <<categories, tagrows, nextId, entry, urls, i, results, parser,
                   data, cat_objs, tag_objs, gets, pre, outcomes, processed, edits,
                   dispVars, extractVars, ormVars, concVars>>

----------------------------------------------------------------------------
(* Return to the caller *)

\* A mutation of the batch loop: a URL that yields None ends the batch.
ReturnedAbortOnFailure ==
    /\ pc = "returned"
    /\ outcomes' = Append(outcomes, [ret |-> ret, path |-> Path,
                                      created |-> article.id])
    /\ IF entry = "parse_multiple_urls"
         THEN /\ results' = DictSet(results, urls[i], ret)
              /\ i' = IF i < Len(urls) /\ ret # None THEN i + 1 ELSE i
              /\ pc' = IF i < Len(urls) /\ ret # None THEN "resolve" ELSE "done"
         ELSE /\ pc' = "done"
              /\ UNCHANGED <<results, i>>
    /\ UNCHANGED <<storeVars, entry, urls, parser, data, cat_objs, tag_objs,
                   article, ret, gets, pre, faulted, envVars, dispVars, extractVars, ormVars, concVars>>

\* parse_multiple_urls: results[url] = article, then the next URL;
\* save_to_db called on its own: the value goes to the caller
Returned ==
    /\ pc = "returned"
    /\ outcomes' = Append(outcomes, [ret |-> ret, path |-> Path,
                                      created |-> article.id])
    /\ IF entry = "parse_multiple_urls"
         THEN /\ results' = DictSet(results, urls[i], ret)
              /\ i' = IF i < Len(urls) THEN i + 1 ELSE i
              /\ pc' = IF i < Len(urls) THEN "resolve" ELSE "done"
         ELSE /\ pc' = "done"
              /\ UNCHANGED <<results, i>>
    /\ UNCHANGED <<storeVars, entry, urls, parser, data, cat_objs, tag_objs,
                   article, ret, gets, pre, faulted, envVars, dispVars, extractVars, ormVars, concVars>>

\* the call is over; its locals are gone
Finish ==
    /\ pc = "done"
    /\ entry' = "none" /\ urls' = <<>> /\ i' = 0 /\ results' = <<>>
    /\ pc' = "idle" /\ parser' = NoParser /\ data' = EmptyDict
    /\ cat_objs' = <<>> /\ tag_objs' = <<>> /\ article' = NoInstance
    /\ ret' = None /\ gets' = 0
    /\ pre' = [articles |-> {}, categories |-> {}, tagrows |-> {}]
    /\ faulted' = "" /\ outcomes' = <<>>
    /\ UNCHANGED <<storeVars, envVars, dispVars, extractVars, ormVars, concVars>>

----------------------------------------------------------------------------
(* Publication workflow (outside the pipeline): an editor saves an Article *)
(* in the admin while no pipeline call is running.                         *)

\* the change forms an editor submits
AdminForms ==
    { [status |-> STATUS_PUBLISHED, content |-> "keep",   tags |-> "keep"],
      [status |-> STATUS_PENDING,   content |-> "edited", tags |-> "keep"],
      [status |-> STATUS_DRAFT,     content |-> "keep",   tags |-> "clear"] }

\* ArticleAdmin.save_model -> obj.save() -> Article.save, then the form's
\* many-to-many fields
AdminSave ==
    /\ pc = "idle" /\ edits < MaxEdits
    /\ \E a \in articles, form \in AdminForms :
        LET s == ArticleSave(form.status, a.status, a.published_at, edits + 1)
        IN  articles' = (articles \ {a}) \cup
                {[a EXCEPT !.status = form.status,
                           !.content = IF form.content = "keep" THEN @ ELSE "edited",
                           !.published_at = s.published_at,
                           !.tags = IF form.tags = "keep" THEN @ ELSE {}]}
    /\ edits' = edits + 1
    /\ UNCHANGED <<categories, tagrows, nextId, callVars, histVars, faults, processed,
                   dispVars, extractVars, ormVars, concVars>>

\* the add forms an editor submits for a Category or a Tag; the slug input is
\* prepopulated from the name and may be edited
TaxonomyForms ==
    { [model |-> "Tag",      name |-> "Mental Health", slug |-> "mental-health"],
      [model |-> "Tag",      name |-> "loneliness",    slug |-> "solitude"],
      [model |-> "Category", name |-> "Statistics",    slug |-> "stats"] }

\* the unique checks of the add form (name, slug) against the stored rows
FormUnique(rows, form) ==
    \A r \in rows : r.name # form.name /\ r.slug # form.slug

\* CategoryAdmin / TagAdmin add view: form validation, then obj.save(), which
\* leaves the submitted slug as it is and inserts the row
AdminAddTaxonomy ==
    /\ pc = "idle" /\ edits < MaxEdits
    /\ \E form \in TaxonomyForms :
        LET rows == IF form.model = "Tag" THEN tagrows ELSE categories
            new  == IF FormUnique(rows, form)
                      THEN rows \cup {[name |-> form.name, slug |-> form.slug]}
                      ELSE rows
        IN  /\ tagrows' = IF form.model = "Tag" THEN new ELSE tagrows
            /\ categories' = IF form.model = "Tag" THEN categories ELSE new
    /\ edits' = edits + 1
    /\ UNCHANGED <<articles, nextId, callVars, histVars, faults, processed,
                   dispVars, extractVars, ormVars, concVars>>

----------------------------------------------------------------------------
(* Specification of the pipeline *)

Next ==
    \/ StartBatch \/ StartCommit
    \/ Resolve \/ Parse
    \/ SaveCats \/ SaveTags \/ SaveCheck \/ SaveCreate
    \/ SaveAddCats \/ SaveAddTags \/ SaveFinal
    \/ Returned \/ Finish
    \/ AdminSave \/ AdminAddTaxonomy

Spec == Init /\ [][Next]_vars

----------------------------------------------------------------------------
(* Specification of one parse_multiple_urls call on an empty database *)

InitBatch ==
    /\ articles = {} /\ categories = {} /\ tagrows = {} /\ nextId = 1
    /\ entry = "parse_multiple_urls"
    /\ urls \in BatchInputs(MaxBatchLen)
    /\ i = IF Len(urls) = 0 THEN 0 ELSE 1
    /\ pc = IF Len(urls) = 0 THEN "done" ELSE "resolve"
    /\ results = <<>> /\ parser = NoParser /\ data = EmptyDict
    /\ cat_objs = <<>> /\ tag_objs = <<>> /\ article = NoInstance /\ ret = None
    /\ gets = 0 /\ pre = [articles |-> {}, categories |-> {}, tagrows |-> {}]
    /\ faulted = "" /\ outcomes = <<>>
    /\ faults = 0 /\ processed = Len(urls) /\ edits = 0
    /\ durl = <<>> /\ dparser = "unset"
    /\ self = NoSelf /\ xpc = "none" /\ raised = ""
    /\ frame = NoFrame /\ result = NoResult
    /\ OrmIdle
    /\ workers = NoWorkers

NextBatch ==
    \/ Resolve \/ Parse
    \/ SaveCats \/ SaveTags \/ SaveCheck \/ SaveCreate
    \/ SaveAddCats \/ SaveAddTags \/ SaveFinal
    \/ Returned

SpecBatch == InitBatch /\ [][NextBatch]_vars

----------------------------------------------------------------------------
(* Specification of the dispatcher on its own: get_parser_for_url applied  *)
(* to every URL of at most MaxUrlLen tokens                                *)

AllUrls == UNION { [1..n -> Tokens] : n \in 0..MaxUrlLen }

InitDispatch ==
    /\ articles = {} /\ categories = {} /\ tagrows = {} /\ nextId = 1
    /\ Idle
    /\ faults = 0 /\ processed = 0 /\ edits = 0
    /\ durl \in AllUrls /\ dparser = "unset"
    /\ self = NoSelf /\ xpc = "none" /\ raised = ""
    /\ frame = NoFrame /\ result = NoResult
    /\ OrmIdle
    /\ workers = NoWorkers

Dispatch ==
    /\ dparser = "unset"
    /\ dparser' = get_parser_for_url(durl)
    /\ UNCHANGED <<storeVars, callVars, histVars, envVars, durl, extractVars, ormVars, concVars>>

SpecDispatch == InitDispatch /\ [][Dispatch]_vars

----------------------------------------------------------------------------
(* Specification of the extraction on its own: parse() of either strategy  *)
(* on a fetched document, statement by statement.  The try block of at     *)
(* most one extract_* method raises.                                       *)

InitExtract ==
    /\ articles = {} /\ categories = {} /\ tagrows = {} /\ nextId = 1
    /\ Idle
    /\ faults = 0 /\ processed = 0 /\ edits = 0
    /\ durl = <<>> /\ dparser = "unset"
    /\ self \in {[cls |-> get_parser_for_url(u), url |-> u, soup |-> d] :
                    u \in {v \in UrlPool : get_parser_for_url(v) \in Classes},
                    d \in Soups}
    /\ xpc = "title" /\ raised = ""
    /\ frame = NoFrame /\ result = NoResult
    /\ OrmIdle
    /\ workers = NoWorkers

\* whether the try block about to run raises
RaiseChoice == IF raised = "" THEN {FALSE, TRUE} ELSE {FALSE}

\* title = self.extract_title()
ExtractTitle ==
    /\ xpc = "title"
    /\ \E raises \in RaiseChoice :
        /\ frame' = [frame EXCEPT
                        !.title = extract_title(self.cls, self.soup, raises)]
        /\ raised' = IF raises THEN "extract_title" ELSE raised
    /\ xpc' = "publication_date"
    /\ UNCHANGED <<storeVars, callVars, histVars, envVars, dispVars, ormVars, concVars, self, result>>

\* publication_date = self.extract_publication_date()
ExtractPublicationDate ==
    /\ xpc = "publication_date"
    /\ \E raises \in RaiseChoice :
        /\ frame' = [frame EXCEPT
                        !.publication_date =
                            extract_publication_date(self.cls, self.soup, raises)]
        /\ raised' = IF raises THEN "extract_publication_date" ELSE raised
    /\ xpc' = IF self.cls = "CnbcParser" THEN "author" ELSE "statistics"
    /\ UNCHANGED <<storeVars, callVars, histVars, envVars, dispVars, ormVars, concVars, self, result>>

\* author = self.extract_author()          (CnbcParser only)
ExtractAuthor ==
    /\ xpc = "author"
    /\ \E raises \in RaiseChoice :
        /\ frame' = [frame EXCEPT !.author = extract_author(self.soup, raises)]
        /\ raised' = IF raises THEN "extract_author" ELSE raised
    /\ xpc' = "statistics"
    /\ UNCHANGED <<storeVars, callVars, histVars, envVars, dispVars, ormVars, concVars, self, result>>

\* statistics = self.extract_statistics()
ExtractStatistics ==
    /\ xpc = "statistics"
    /\ \E raises \in RaiseChoice :
        /\ frame' = [frame EXCEPT
                        !.statistics =
                            extract_statistics(self.cls, self.soup, raises)]
        /\ raised' = IF raises THEN "extract_statistics" ELSE raised
    /\ xpc' = "content"
    /\ UNCHANGED <<storeVars, callVars, histVars, envVars, dispVars, ormVars, concVars, self, result>>

\* A mutation of the body extraction: its exception leaves parse().
ExtractContentUncaught ==
    /\ xpc = "content"
    /\ \E raises \in RaiseChoice :
        /\ frame' = [frame EXCEPT
                        !.content = extract_content(self.cls, self.soup, FALSE)]
        /\ raised' = IF raises THEN "extract_content" ELSE raised
        /\ xpc' = IF raises THEN "raised" ELSE "summary"
    /\ UNCHANGED <<storeVars, callVars, histVars, envVars, dispVars, ormVars, concVars, self, result>>

\* content = self.extract_content()
ExtractContent ==
    /\ xpc = "content"
    /\ \E raises \in RaiseChoice :
        /\ frame' = [frame EXCEPT
                        !.content = extract_content(self.cls, self.soup, raises)]
        /\ raised' = IF raises THEN "extract_content" ELSE raised
    /\ xpc' = "summary"
    /\ UNCHANGED <<storeVars, callVars, histVars, envVars, dispVars, ormVars, concVars, self, result>>

\* summary = self.create_summary(statistics, content)
CreateSummary ==
    /\ xpc = "summary"
    /\ frame' = [frame EXCEPT
                    !.summary = create_summary(self.cls, frame.statistics,
                                               frame.content)]
    /\ xpc' = "return"
    /\ UNCHANGED <<storeVars, callVars, histVars, envVars, dispVars, ormVars, concVars, self, raised,
                   result>>

\* tags = [...]; result = {...}; return result
ReturnResult ==
    /\ xpc = "return"
    /\ result' = ParseResult(self.cls, self.url, frame)
    /\ xpc' = "done"
    /\ UNCHANGED <<storeVars, callVars, histVars, envVars, dispVars, ormVars, concVars, self, raised,
                   frame>>

NextExtract ==
    \/ ExtractTitle \/ ExtractPublicationDate \/ ExtractAuthor
    \/ ExtractStatistics \/ ExtractContent \/ CreateSummary \/ ReturnResult

SpecExtract == InitExtract /\ [][NextExtract]_vars

----------------------------------------------------------------------------
(* Specification of one Category or Tag instance: constructed with a name  *)
(* and a slug, then renamed, given another slug, and saved, in any order.  *)

\* Category(name=..., slug=...) or Tag(name=..., slug=...)
InitTaxonomy ==
    /\ articles = {} /\ categories = {} /\ tagrows = {} /\ nextId = 1
    /\ Idle
    /\ faults = 0 /\ processed = 0 /\ edits = 0
    /\ durl = <<>> /\ dparser = "unset"
    /\ self = NoSelf /\ xpc = "none" /\ raised = ""
    /\ frame = NoFrame /\ result = NoResult
    /\ instance \in {[model |-> m, pk |-> None, name |-> n, slug |-> s] :
                        m \in TaxonomyModels, n \in Names, s \in SlugInputs}
    /\ stored = NoRow
    /\ objs = NoObjs /\ clock = 1 /\ lastsave = NoSave
    /\ workers = NoWorkers

\* instance.save(): SlugMixin.save, then Model.save
EntitySave ==
    /\ instance.model \in TaxonomyModels
    /\ LET written == SlugMixinSave(instance)
           error   == ModelSaveError(written)
           after   == IF error = "" THEN [written EXCEPT !.pk = 1] ELSE written
       IN  /\ instance' = after
           /\ stored' = IF error = ""
                          THEN [name |-> after.name, slug |-> after.slug, pk |-> 1]
                          ELSE stored
           /\ lastsave' = [op |-> "SlugMixin.save", before |-> instance,
                           after |-> after, error |-> error]
    /\ UNCHANGED <<storeVars, callVars, histVars, envVars, dispVars, extractVars,
                   objs, clock, concVars>>

\* instance.name = ...
EntitySetName ==
    /\ instance.model \in TaxonomyModels
    /\ \E n \in Names : instance' = [instance EXCEPT !.name = n]
    /\ UNCHANGED <<storeVars, callVars, histVars, envVars, dispVars, extractVars,
                   stored, objs, clock, lastsave, concVars>>

\* instance.slug = ...
EntitySetSlug ==
    /\ instance.model \in TaxonomyModels
    /\ \E s \in SlugInputs : instance' = [instance EXCEPT !.slug = s]
    /\ UNCHANGED <<storeVars, callVars, histVars, envVars, dispVars, extractVars,
                   stored, objs, clock, lastsave, concVars>>

\* instance.refresh_from_db()
EntityRefresh ==
    /\ instance.model \in TaxonomyModels /\ instance.pk # None
    /\ instance' = [instance EXCEPT !.name = stored.name, !.slug = stored.slug]
    /\ UNCHANGED <<storeVars, callVars, histVars, envVars, dispVars, extractVars,
                   stored, objs, clock, lastsave, concVars>>

NextTaxonomy == EntitySave \/ EntitySetName \/ EntitySetSlug \/ EntityRefresh

SpecTaxonomy == InitTaxonomy /\ [][NextTaxonomy]_vars

----------------------------------------------------------------------------
(* Specification of one Article: constructed with a status, saved, loaded  *)
(* again (by the same or by another request), given another status and     *)
(* saved again, in any order.  No code outside Article.save assigns        *)
(* published_at.                                                           *)

\* the requests (or shell sessions) that hold an instance of the Article
Handles == {"first", "second"}

NoObj == [pk |-> None, status |-> "", published_at |-> None,
          original_status |-> ""]

\* Article(title=..., summary=..., status=s): __init__ keeps the status
ArticleInit(s) ==
    [pk |-> None, status |-> s, published_at |-> None, original_status |-> s]

\* Article.objects.get(pk=...): __init__ on the stored values
ArticleFromRow(row) ==
    [pk |-> row.id, status |-> row.status, published_at |-> row.published_at,
     original_status |-> row.status]

\* the other columns of an Article entered by hand
ManualEntry ==
    [original_url |-> None, source_name |-> "Manual Input", content |-> "v1"]

InitArticle ==
    /\ articles = {} /\ categories = {} /\ tagrows = {} /\ nextId = 1
    /\ Idle
    /\ faults = 0 /\ processed = 0 /\ edits = 0
    /\ durl = <<>> /\ dparser = "unset"
    /\ self = NoSelf /\ xpc = "none" /\ raised = ""
    /\ frame = NoFrame /\ result = NoResult
    /\ instance = NoEntity /\ stored = NoRow
    /\ \E s \in STATUS_CHOICES :
          objs = [h \in Handles |-> IF h = "first" THEN ArticleInit(s) ELSE NoObj]
    /\ clock = 1
    /\ lastsave = NoSave
    /\ workers = NoWorkers

\* whether a save before now stored the Article as PUBLISHED
PublishedBefore ==
    lastsave.op = "Article.save" /\
        (lastsave.published_before \/
            (lastsave.error = "" /\ lastsave.after.status = STATUS_PUBLISHED))

\* objs[h].save(): Article.save, with super().save() as the INSERT or the
\* UPDATE of every column.  When super().save() raises, nothing is written,
\* the exception leaves the caller (ArticleAdmin.save_model, the request
\* ends) and the instance is gone with it.
SaveArticle ==
    /\ clock <= MaxSaves
    /\ \E h \in Handles, fault \in FaultChoice :
        /\ objs[h] # NoObj
        /\ LET o     == objs[h]
               s     == ArticleSave(o.status, o.original_status, o.published_at, clock)
               pk    == IF o.pk = None THEN nextId ELSE o.pk
               old   == {a \in articles : a.id = pk}
               base  == IF old = {} THEN NewArticleRow(pk, ManualEntry)
                                    ELSE CHOOSE a \in old : TRUE
               after == IF fault THEN NoObj
                        ELSE [pk |-> pk, status |-> o.status,
                              published_at |-> s.published_at,
                              original_status |-> s.original_status]
           IN  /\ articles' = IF fault THEN articles
                              ELSE (articles \ old) \cup
                                     {[base EXCEPT !.status = o.status,
                                                   !.published_at = s.published_at]}
               /\ nextId' = IF o.pk = None /\ ~fault THEN nextId + 1 ELSE nextId
               /\ objs' = [objs EXCEPT ![h] = after]
               /\ faults' = IF fault THEN faults + 1 ELSE faults
               /\ lastsave' = [op |-> "Article.save", h |-> h, before |-> o,
                               after |-> after, now |-> clock,
                               error |-> IF fault THEN "database" ELSE "",
                               published_before |-> PublishedBefore]
    /\ clock' = clock + 1
    /\ UNCHANGED <<categories, tagrows, callVars, histVars, processed, edits,
                   dispVars, extractVars, instance, stored, concVars>>

\* objs[h].status = s
SetStatus ==
    /\ \E h \in Handles, s \in STATUS_CHOICES :
        /\ objs[h] # NoObj /\ objs[h].status # s
        /\ objs' = [objs EXCEPT ![h].status = s]
    /\ UNCHANGED <<storeVars, callVars, histVars, envVars, dispVars, extractVars,
                   instance, stored, clock, lastsave, concVars>>

\* objs[h] = Article.objects.get(pk=...)
GetArticle ==
    /\ \E h \in Handles, a \in articles :
        /\ objs[h] # ArticleFromRow(a)
        /\ objs' = [objs EXCEPT ![h] = ArticleFromRow(a)]
    /\ UNCHANGED <<storeVars, callVars, histVars, envVars, dispVars, extractVars,
                   instance, stored, clock, lastsave, concVars>>

NextArticle == SaveArticle \/ SetStatus \/ GetArticle

SpecArticle == InitArticle /\ [][NextArticle]_vars

----------------------------------------------------------------------------
(* Two save_to_db calls in progress at once on one database.  Each worker  *)
(* runs the statements of save_to_db in order; statements of the two       *)
(* workers interleave.  Every statement is its own transaction (autocommit), *)
(* so a statement sees all that the statements before it committed.        *)

Workers == {"w1", "w2"}

\* the locals of a save_to_db call about to run its first statement
WorkerStart(d) ==
    [pc |-> "s_cats", data |-> d, cat_objs |-> <<>>, tag_objs |-> <<>>,
     article |-> NoInstance, ret |-> None, faulted |-> ""]

\* except Exception as e: logger.error(...); return None
WorkerRaised(w, kind) ==
    [workers[w] EXCEPT !.ret = None, !.pc = "returned", !.faulted = kind]

\* both calls hold a record extracted for the same URL; no Article is stored
InitConcurrent ==
    /\ articles = {} /\ categories = {} /\ tagrows = {} /\ nextId = 1
    /\ Idle
    /\ faults = 0 /\ processed = 0 /\ edits = 0
    /\ durl = <<>> /\ dparser = "unset"
    /\ self = NoSelf /\ xpc = "none" /\ raised = ""
    /\ frame = NoFrame /\ result = NoResult
    /\ OrmIdle
    /\ \E u \in {v \in UrlPool : get_parser_for_url(v) # NoParser} :
          \E ps \in [Workers -> Pages] :
              workers = [w \in Workers |->
                            WorkerStart(StrategyParse(get_parser_for_url(u), u, ps[w]))]

\* the loop over data['categories']
WorkerCats ==
    \E w \in Workers :
        /\ workers[w].pc = "s_cats"
        /\ \E failAt \in FailPoints(Len(workers[w].data.categories)) :
            LET r == ResolveNames(categories, workers[w].data.categories, 1, <<>>, failAt)
            IN  /\ categories' = r.rows
                /\ faults' = IF r.error = "database" THEN faults + 1 ELSE faults
                /\ workers' = [workers EXCEPT ![w] =
                                  IF r.error = ""
                                      THEN [@ EXCEPT !.cat_objs = r.objs, !.pc = "s_tags"]
                                      ELSE WorkerRaised(w, r.error)]
        /\ UNCHANGED <<articles, tagrows, nextId, callVars, histVars, processed,
                       edits, dispVars, extractVars, ormVars>>

\* the loop over data['tags']
WorkerTags ==
    \E w \in Workers :
        /\ workers[w].pc = "s_tags"
        /\ \E failAt \in FailPoints(Len(workers[w].data.tags)) :
            LET r == ResolveNames(tagrows, workers[w].data.tags, 1, <<>>, failAt)
            IN  /\ tagrows' = r.rows
                /\ faults' = IF r.error = "database" THEN faults + 1 ELSE faults
                /\ workers' = [workers EXCEPT ![w] =
                                  IF r.error = ""
                                      THEN [@ EXCEPT !.tag_objs = r.objs, !.pc = "s_check"]
                                      ELSE WorkerRaised(w, r.error)]
        /\ UNCHANGED <<articles, categories, nextId, callVars, histVars, processed,
                       edits, dispVars, extractVars, ormVars>>

\* existing_article = Article.objects.filter(original_url=...).first()
\* if existing_article: return existing_article
WorkerCheck ==
    \E w \in Workers :
        /\ workers[w].pc = "s_check"
        /\ \E fault \in FaultChoice :
            /\ faults' = IF fault THEN faults + 1 ELSE faults
            /\ workers' = [workers EXCEPT ![w] =
                  IF fault THEN WorkerRaised(w, "database")
                  ELSE LET existing_article ==
                               FirstByUrl(articles, workers[w].data.original_url)
                       IN  [@ EXCEPT !.ret = existing_article,
                                     !.pc = IF existing_article # None
                                                THEN "returned" ELSE "s_create"]]
        /\ UNCHANGED <<storeVars, callVars, histVars, processed, edits, dispVars,
                       extractVars, ormVars>>

\* article = Article.objects.create(..., status=Article.STATUS_DRAFT)
WorkerCreate ==
    \E w \in Workers :
        /\ workers[w].pc = "s_create"
        /\ \E fault \in FaultChoice :
            /\ faults' = IF fault THEN faults + 1 ELSE faults
            /\ IF fault \/ UniqueViolation(articles, workers[w].data.original_url)
                 THEN /\ workers' = [workers EXCEPT ![w] =
                             WorkerRaised(w, IF fault THEN "database" ELSE "integrity")]
                      /\ UNCHANGED <<articles, nextId>>
                 ELSE /\ articles' = articles \cup {NewArticleRow(nextId, workers[w].data)}
                      /\ nextId' = nextId + 1
                      /\ workers' = [workers EXCEPT ![w] =
                             [@ EXCEPT !.article = [id |-> nextId,
                                                    original_status |-> STATUS_DRAFT],
                                       !.pc = "s_addcats"]]
        /\ UNCHANGED <<categories, tagrows, callVars, histVars, processed, edits,
                       dispVars, extractVars, ormVars>>

\* if categories: article.categories.add(*categories)
WorkerAddCats ==
    \E w \in Workers :
        /\ workers[w].pc = "s_addcats"
        /\ \E fault \in (IF workers[w].cat_objs = <<>> THEN {FALSE} ELSE FaultChoice) :
            /\ faults' = IF fault THEN faults + 1 ELSE faults
            /\ IF fault
                 THEN /\ workers' = [workers EXCEPT ![w] = WorkerRaised(w, "database")]
                      /\ UNCHANGED articles
                 ELSE /\ articles' =
                            { IF a.id = workers[w].article.id
                                THEN [a EXCEPT !.categories = @ \cup Range(workers[w].cat_objs)]
                                ELSE a : a \in articles }
                      /\ workers' = [workers EXCEPT ![w].pc = "s_addtags"]
        /\ UNCHANGED <<categories, tagrows, nextId, callVars, histVars, processed,
                       edits, dispVars, extractVars, ormVars>>

\* if tags: article.tags.add(*tags)
WorkerAddTags ==
    \E w \in Workers :
        /\ workers[w].pc = "s_addtags"
        /\ \E fault \in (IF workers[w].tag_objs = <<>> THEN {FALSE} ELSE FaultChoice) :
            /\ faults' = IF fault THEN faults + 1 ELSE faults
            /\ IF fault
                 THEN /\ workers' = [workers EXCEPT ![w] = WorkerRaised(w, "database")]
                      /\ UNCHANGED articles
                 ELSE /\ articles' =
                            { IF a.id = workers[w].article.id
                                THEN [a EXCEPT !.tags = @ \cup Range(workers[w].tag_objs)]
                                ELSE a : a \in articles }
                      /\ workers' = [workers EXCEPT ![w].pc = "s_save"]
        /\ UNCHANGED <<categories, tagrows, nextId, callVars, histVars, processed,
                       edits, dispVars, extractVars, ormVars>>

\* article.save(); return article
WorkerFinal ==
    \E w \in Workers :
        /\ workers[w].pc = "s_save"
        /\ \E fault \in FaultChoice :
            /\ faults' = IF fault THEN faults + 1 ELSE faults
            /\ IF fault
                 THEN /\ workers' = [workers EXCEPT ![w] = WorkerRaised(w, "database")]
                      /\ UNCHANGED articles
                 ELSE LET row == Row(articles, workers[w].article.id)
                          s   == ArticleSave(row.status, workers[w].article.original_status,
                                             row.published_at, edits + 1)
                      IN  /\ articles' = (articles \ {row}) \cup
                                           {[row EXCEPT !.published_at = s.published_at]}
                          /\ workers' = [workers EXCEPT ![w] =
                                 [@ EXCEPT !.article.original_status = s.original_status,
                                           !.ret = workers[w].article.id,
                                           !.pc = "returned"]]
        /\ UNCHANGED <<categories, tagrows, nextId, callVars, histVars, processed,
                       edits, dispVars, extractVars, ormVars>>

NextConcurrent ==
    \/ WorkerCats \/ WorkerTags \/ WorkerCheck \/ WorkerCreate
    \/ WorkerAddCats \/ WorkerAddTags \/ WorkerFinal

SpecConcurrent == InitConcurrent /\ [][NextConcurrent]_vars

----------------------------------------------------------------------------
(* Public views (articles/views.py): the querysets of the list views, on   *)
(* the store as it is when the request runs.                               *)

Http404 == [status |-> 404, object_list |-> {}]

\* A mutation of ArticleListView.get_queryset: Article.objects.all().
ArticleListViewAll == [status |-> 200, object_list |-> articles]

\* ArticleListView.get_queryset
ArticleListView ==
    [status |-> 200,
     object_list |-> {a \in articles : a.status = STATUS_PUBLISHED}]

\* CategoryArticlesView.get_queryset, kwargs slug
CategoryArticlesView(slug) ==
    IF \A c \in categories : c.slug # slug THEN Http404
    ELSE [status |-> 200,
          object_list |-> {a \in articles : a.status = STATUS_PUBLISHED
                                            /\ slug \in a.categories}]

\* TagArticlesView.get_queryset, kwargs slug
TagArticlesView(slug) ==
    IF \A t \in tagrows : t.slug # slug THEN Http404
    ELSE [status |-> 200,
          object_list |-> {a \in articles : a.status = STATUS_PUBLISHED
                                            /\ slug \in a.tags}]

\* the slugs a request may carry: every stored one and one that is not
RequestSlugs ==
    {c.slug : c \in categories} \cup {t.slug : t \in tagrows} \cup {"no-such-slug"}

----------------------------------------------------------------------------
(* Properties *)

InSave == pc \in {"s_cats", "s_tags", "s_check", "s_create", "s_addcats",
                  "s_addtags", "s_save"}

Ids(arts) == {a.id : a \in arts}

StoredUrl(arts, url) == \E a \in arts : a.original_url = url

\* C1: after any sequence of save_to_db commits (direct or through
\* parse_url / parse_multiple_urls) the store holds at most one Article per
\* original_url, and no two rows share a primary key.
C1_OneArticlePerUrl ==
    \A a, b \in articles :
        (a.original_url = b.original_url \/ a.id = b.id) => a = b

\* C1 witness: a commit of a URL that was already stored has returned, and the
\* store still holds exactly one row with that URL.
C1_Witness ==
    /\ pc = "returned" /\ Path = "dedup"
    /\ StoredUrl(pre.articles, data.original_url)
    /\ Cardinality({a \in articles : a.original_url = data.original_url}) = 1

Slugs(rows) == {r.slug : r \in rows}

\* save_to_db has returned from a commit whose URL was stored when it began
CommitOfStoredUrl ==
    /\ pc = "returned" /\ data # EmptyDict
    /\ StoredUrl(pre.articles, data.original_url)

StoredId(arts, url) == (CHOOSE a \in arts : a.original_url = url).id

\* every category and tag the record names was stored when the commit began
NamesStored ==
    /\ \A k \in 1..Len(data.categories) :
           slugify(data.categories[k]) \in Slugs(pre.categories)
    /\ \A k \in 1..Len(data.tags) :
           slugify(data.tags[k]) \in Slugs(pre.tagrows)

\* C2 as claimed, in behaviours where no statement ever failed: a commit of an
\* already stored canonical_url returns the stored Article and creates no
\* Article, Category or Tag row.
C2_Original ==
    (CommitOfStoredUrl /\ faults = 0 /\ faulted = "") =>
        /\ ret = StoredId(pre.articles, data.original_url)
        /\ Ids(articles) = Ids(pre.articles)
        /\ categories = pre.categories
        /\ tagrows = pre.tagrows

\* C2 amended: a commit of an already stored canonical_url in which the
\* database fails no statement returns the stored Article and creates no
\* Article row; it creates no Category or Tag row when every category and
\* tag the record names is already stored (as after a commit of the same
\* record).
C2_Idempotent ==
    (CommitOfStoredUrl /\ faulted # "database") =>
        /\ ret = StoredId(pre.articles, data.original_url)
        /\ Ids(articles) = Ids(pre.articles)
        /\ NamesStored => (categories = pre.categories /\ tagrows = pre.tagrows)

\* C2 witness: the second commit of a record has returned the stored Article
\* with all of its taxonomy already in the store.
C2_Witness ==
    /\ CommitOfStoredUrl /\ NamesStored /\ faulted = ""
    /\ ret = StoredId(pre.articles, data.original_url)
    /\ categories # {} /\ tagrows # {}

\* C3: rows that were stored when processing of a URL began are still stored,
\* field for field (title, summary, authors, body, publication date, status,
\* category and tag links), at every later statement of that processing; and a
\* commit that finds its original_url stored returns that very row.
C3_ExistingUntouched ==
    /\ pre.articles \subseteq articles
    /\ pre.categories \subseteq categories
    /\ pre.tagrows \subseteq tagrows
    /\ (pc = "returned" /\ Path = "dedup") =>
          /\ ret # None
          /\ \E a \in pre.articles :
                a.id = ret /\ a.original_url = data.original_url /\ a \in articles

\* C3 witness: the dedup path has returned an Article that an editor changed
\* after it was committed, for a record whose extracted fields differ from the
\* stored ones.
C3_Witness ==
    /\ pc = "returned" /\ Path = "dedup"
    /\ \E a \in articles :
        /\ a.id = ret
        /\ a.content = "edited" /\ a.status = STATUS_PENDING
        /\ data.content = "v2"

NameSlugs(names) == {slugify(names[k]) : k \in 1..Len(names)}

\* C4: when a statement of save_to_db raises, the commit returns None and no
\* Article row created by that call remains in the store without its full set
\* of category and tag links.
C4_NoPartialWrite ==
    (pc = "returned" /\ faulted # "") =>
        /\ ret = None
        /\ \A a \in articles :
              a.id \notin Ids(pre.articles) =>
                  /\ a.categories = NameSlugs(data.categories)
                  /\ a.tags = NameSlugs(data.tags)

FailedPaths == {"unsupported", "fetch_failed", "commit_failed"}

LastIndex(seq, x) == CHOOSE n \in 1..Len(seq) :
                        seq[n] = x /\ \A m \in (n + 1)..Len(seq) : seq[m] # x

C6_DraftOnly ==
    [][ edits' = edits =>
          /\ \A a \in articles :
                \E b \in articles' : b.id = a.id /\ b.status = a.status
          /\ \A b \in articles' :
                b.id \notin Ids(articles) => b.status = STATUS_DRAFT
          /\ (pc' = "returned" /\ article'.id # None) =>
                \E b \in articles' :
                    b.id = article'.id /\ b.status = STATUS_DRAFT ]_vars

\* C6 witness: a commit that created an Article has returned while an
\* Article stored before the call is, and stays, published.
C6_Witness ==
    /\ pc = "returned" /\ article.id # None /\ ret = article.id
    /\ \E b \in articles : b.id = article.id /\ b.status = STATUS_DRAFT
    /\ \E a \in pre.articles :
          /\ a.status = STATUS_PUBLISHED
          /\ a \in articles

MatchIdx(url) == {n \in 1..Len(parsers) : Contains(url, parsers[n].domain)}

\* C7: the dispatcher answers with the class registered under the earliest
\* registered domain that occurs anywhere in the URL, whatever else matches
\* and wherever the matches lie, and with no parser when no domain occurs.
C7_FirstRegisteredMatch ==
    dparser # "unset" =>
        IF MatchIdx(durl) = {}
          THEN dparser = NoParser
          ELSE \E n \in MatchIdx(durl) :
                  /\ \A m \in MatchIdx(durl) : n <= m
                  /\ dparser = parsers[n].parser_class

\* C7 witness: the URL has the later registered domain as its host and the
\* earlier registered one further on; the earlier registered class is chosen.
C7_Witness ==
    /\ dparser = parsers[1].parser_class
    /\ Len(durl) = 4
    /\ SubSeq(durl, 1, 2) = parsers[2].domain
    /\ SubSeq(durl, 3, 4) = parsers[1].domain
    /\ MatchIdx(durl) = {1, 2}

\* C8: one processing of a URL issues at most one GET; the commit runs only
\* with a resolved strategy whose single fetch succeeded; an unsupported URL
\* returns None with no GET and an unchanged store; a failed fetch returns
\* None after exactly one GET with an unchanged store.
C8_CommitAfterFetch ==
    /\ gets <= 1
    /\ (InSave /\ entry = "parse_multiple_urls") =>
          /\ parser # NoParser
          /\ gets = 1
          /\ data # EmptyDict
    /\ (pc = "returned" /\ entry = "parse_multiple_urls"
            /\ Path = "unsupported") =>
          /\ gets = 0 /\ ret = None /\ Snapshot = pre
    /\ (pc = "returned" /\ entry = "parse_multiple_urls"
            /\ Path = "fetch_failed") =>
          /\ gets = 1 /\ ret = None /\ Snapshot = pre

\* C8 witness: with an Article already stored, the fetch of a supported URL
\* has failed and the processing has returned.
C8_Witness ==
    /\ pc = "returned" /\ entry = "parse_multiple_urls"
    /\ parser # NoParser /\ Path = "fetch_failed"
    /\ gets = 1 /\ ret = None
    /\ articles # {} /\ Snapshot = pre

Occurrences(seq, x) == {n \in 1..Len(seq) : seq[n] = x}

\* C9 as claimed, in behaviours where no database statement failed: when the
\* batch has returned, a URL that occurs exactly twice and whose first
\* occurrence created an Article had its second occurrence take the dedup
\* path, and its entry is the Article the first occurrence created.
C9_Original ==
    (pc = "done" /\ entry = "parse_multiple_urls" /\ faults = 0) =>
        \A m, n \in 1..Len(urls) :
            (/\ m < n
             /\ Occurrences(urls, urls[m]) = {m, n}
             /\ outcomes[m].path = "created") =>
                /\ outcomes[n].path = "dedup"
                /\ DictGet(results, urls[n]) = outcomes[m].created

\* C9 amended: a later occurrence of a URL whose earlier occurrence created
\* an Article is resolved and fetched again; if that fetch succeeds and no
\* database statement of its commit fails, it takes the dedup path, returns
\* the Article the earlier occurrence created and adds no Article; and when
\* the last occurrence took the dedup path, the entry is that Article.
C9_DuplicateDedup ==
    /\ (entry = "parse_multiple_urls" /\ pc = "returned") =>
          \A m \in 1..(i - 1) :
              (urls[m] = urls[i] /\ outcomes[m].created # None) =>
                  /\ parser # NoParser
                  /\ gets = 1
                  /\ (data # EmptyDict /\ faulted # "database") =>
                        /\ Path = "dedup"
                        /\ ret = outcomes[m].created
                        /\ articles = pre.articles
    /\ (entry = "parse_multiple_urls" /\ pc = "done") =>
          \A m, n \in 1..Len(urls) :
              (/\ m < n /\ urls[m] = urls[n]
               /\ outcomes[m].created # None
               /\ n = LastIndex(urls, urls[n])
               /\ outcomes[n].path = "dedup") =>
                  DictGet(results, urls[n]) = outcomes[m].created

\* C9 witness: the batch has returned; the first position created an Article,
\* the second position is the same URL and took the dedup path, and the
\* entry is the Article of the first.
C9_Witness ==
    /\ pc = "done" /\ Len(urls) >= 2 /\ urls[1] = urls[2]
    /\ Occurrences(urls, urls[1]) = {1, 2}
    /\ outcomes[1].path = "created"
    /\ outcomes[2].path = "dedup"
    /\ outcomes[2].ret = outcomes[1].created
    /\ DictGet(results, urls[1]) = outcomes[1].created

RECURSIVE FirstOccurrences(_)
FirstOccurrences(seq) ==
    IF seq = <<>> THEN <<>>
    ELSE LET front == FirstOccurrences(SubSeq(seq, 1, Len(seq) - 1))
             last  == seq[Len(seq)]
         IN  IF last \in Range(front) THEN front ELSE Append(front, last)

\* C10: the position in the input moves only when the processing of the
\* current URL has returned, and then by exactly one, to the resolution of
\* the next URL; the URLs processed so far are exactly the positions before
\* the current one; and the keys of the mapping iterate in the order of
\* first occurrence of the URLs processed so far.
C10_InputOrder ==
    /\ [](entry = "parse_multiple_urls" =>
            /\ Len(outcomes) = (IF pc = "done" THEN Len(urls) ELSE i - 1)
            /\ DictKeys(results) =
                  FirstOccurrences(SubSeq(urls, 1, Len(outcomes))))
    /\ [][ /\ i' # i =>
                /\ pc = "returned" /\ pc' = "resolve"
                /\ i' = i + 1
                /\ Len(outcomes') = i
           /\ Len(outcomes') # Len(outcomes) =>
                /\ pc = "returned"
                /\ outcomes' = Append(outcomes, outcomes'[i])
           /\ urls' = urls ]_vars

\* C10 witness: a batch of three positions has returned, the third repeating
\* the first; the mapping has two keys, the first URL before the second.
C10_Witness ==
    /\ pc = "done" /\ Len(urls) = 3
    /\ urls[1] = urls[3] /\ urls[1] # urls[2]
    /\ DictKeys(results) = <<urls[1], urls[2]>>
    /\ DictGet(results, urls[1]) # None

\* parse() has run its statement s: it is past it
Extracted(s) ==
    LET order == <<"title", "publication_date", "author", "statistics",
                   "content", "summary", "return", "done">>
        At(x) == CHOOSE n \in 1..Len(order) : order[n] = x
    IN  xpc # "none" /\ At(xpc) > At(s)

HeadingFound(cls, soup) ==
    soup.h1.found \/ (cls = "CnbcParser" /\ soup.headline.found)

\* C11: once extract_title has run, the title is not the empty string: it is
\* the text of the heading when a heading is found and the strategy's
\* generic title otherwise.
C11_TitleNonEmpty ==
    Extracted("title") =>
        /\ frame.title # <<>>
        /\ ~HeadingFound(self.cls, self.soup) =>
              frame.title = (IF self.cls = "CnbcParser" THEN GenericTitleCnbc
                                                        ELSE GenericTitleRoots)

\* some date marker of the document parses in the format of the class
HasParseableDate(cls, soup) ==
    IF cls = "CnbcParser"
      THEN \/ /\ soup.publish_date.found
              /\ strptime(Strip(soup.publish_date.text), MonthsAbbr, FALSE).ok
           \/ \E n \in 1..Len(soup.nodes) :
                 \E k \in 1..Len(soup.nodes[n].text) :
                    /\ CnbcDateMatchAt(soup.nodes[n].text, k) # <<>>
                    /\ strptime(CnbcDateMatchAt(soup.nodes[n].text, k),
                                MonthsAbbr, TRUE).ok
      ELSE \E n \in 1..Len(soup.nodes) :
              \E k \in 1..Len(soup.nodes[n].text) :
                 /\ RootsDateMatchAt(soup.nodes[n].text, k) # <<>>
                 /\ strptime(RootsDateMatchAt(soup.nodes[n].text, k),
                             MonthsFull, TRUE).ok

\* C12: what extract_publication_date returns is a date and never null, and
\* it is the current date when no date marker of the document parses, when
\* the publish-date element of a CNBC page does not parse, and when the
\* method's try block raised.
C12_DateFallback ==
    Extracted("publication_date") =>
        /\ frame.publication_date # NullDate
        /\ ~HasParseableDate(self.cls, self.soup) =>
              frame.publication_date = Today
        /\ (/\ self.cls = "CnbcParser"
            /\ self.soup.publish_date.found
            /\ ~strptime(Strip(self.soup.publish_date.text),
                         MonthsAbbr, FALSE).ok) =>
              frame.publication_date = Today
        /\ raised = "extract_publication_date" =>
              frame.publication_date = Today

\* C12 witness: parse() of the CNBC strategy has returned for a page whose
\* publish-date element does not parse while a paragraph carries a date
\* that would; the publication date is the current date.
C12_Witness ==
    /\ xpc = "done" /\ self.cls = "CnbcParser" /\ raised = ""
    /\ self.soup.publish_date.found
    /\ self.soup.publish_date.text # <<>>
    /\ ~strptime(Strip(self.soup.publish_date.text), MonthsAbbr, FALSE).ok
    /\ HasParseableDate(self.cls, self.soup)
    /\ result.publication_date = Today

\* the tier a summary belongs to
SummaryTier(summary) ==
    IF summary \in {CnbcGenericSummary, RootsGenericSummary} THEN "generic"
    ELSE IF summary # <<>> /\ summary[1] \in {CnbcLeadIn, RootsLeadIn}
      THEN "statistics"
    ELSE "sentences"

\* one of the first five sentences of the body matches a topic keyword
KeywordInWindow(content) ==
    LET sentences == SplitSentences(content, 1, <<>>)
    IN  /\ content # <<>>
        /\ \E n \in 1..Len(sentences) :
              n <= 5 /\ HasStem(sentences[n], SentenceWords, TRUE)

ThreeTier(statistics, content) ==
    IF statistics # <<>> THEN "statistics"
    ELSE IF KeywordInWindow(content) THEN "sentences"
    ELSE "generic"

\* C13 as claimed: for both strategies the summary is of the statistics tier
\* when there are statistics, else of the sentence tier when one of the first
\* five body sentences matches a keyword, else the generic sentence.
C13_Original ==
    Extracted("summary") =>
        SummaryTier(frame.summary) = ThreeTier(frame.statistics, frame.content)

\* C13 amended: CnbcParser follows the three tiers (statistics, keyword
\* sentences of the first five, generic sentence); RootsOfLonelinessParser
\* has two tiers, statistics and its generic sentence, whatever the body.
C13_SummaryTiers ==
    Extracted("summary") =>
        IF self.cls = "CnbcParser"
          THEN /\ SummaryTier(frame.summary) =
                      ThreeTier(frame.statistics, frame.content)
               /\ SummaryTier(frame.summary) = "generic" =>
                      frame.summary = CnbcGenericSummary
          ELSE IF frame.statistics # <<>>
                 THEN SummaryTier(frame.summary) = "statistics"
                 ELSE frame.summary = RootsGenericSummary

\* C13 witness: the Roots strategy has summarised a page without statistics
\* whose first body sentence matches a keyword: the generic sentence.
C13_Witness ==
    /\ xpc = "done" /\ self.cls = "RootsOfLonelinessParser"
    /\ frame.statistics = <<>>
    /\ KeywordInWindow(frame.content)
    /\ result.summary = RootsGenericSummary

\* "(bullet) s1 \n (bullet) s2 ..." for the first j statistics
RECURSIVE BulletLines(_, _)
BulletLines(statistics, j) ==
    IF j = 0 THEN <<>>
    ELSE BulletLines(statistics, j - 1)
            \o (IF j > 1 THEN <<"\n">> ELSE <<>>)
            \o <<Bullet>> \o statistics[j]

\* C14: with n >= 1 statistics the summary is the strategy's lead-in followed
\* by one bullet for each of the first min(n, k) statistics, in their order,
\* and nothing else: k = 3 for CnbcParser, k = 5 for RootsOfLonelinessParser.
C14_BulletSummary ==
    (Extracted("summary") /\ frame.statistics # <<>>) =>
        LET k == IF self.cls = "CnbcParser" THEN 3 ELSE 5
            m == IF Len(frame.statistics) < k THEN Len(frame.statistics) ELSE k
        IN  /\ frame.summary =
                  <<IF self.cls = "CnbcParser" THEN CnbcLeadIn ELSE RootsLeadIn,
                    "\n\n">> \o BulletLines(frame.statistics, m)
            /\ Cardinality({p \in 1..Len(frame.summary) :
                               frame.summary[p] = Bullet}) = m

\* C14 witness: the Roots strategy has summarised six statistics, not all
\* alike, on a page with a body: five bullets.
C14_Witness ==
    /\ xpc = "done" /\ self.cls = "RootsOfLonelinessParser"
    /\ Len(frame.statistics) = 6
    /\ frame.statistics[1] # frame.statistics[2]
    /\ frame.statistics[6] # frame.statistics[5]
    /\ frame.content # <<>>
    /\ Cardinality({p \in 1..Len(result.summary) : result.summary[p] = Bullet}) = 5

\* the sentences at the positions J, in body order, joined by a blank
RECURSIVE Chosen(_, _, _)
Chosen(sentences, J, n) ==
    IF n > Len(sentences) THEN <<>>
    ELSE IF n \in J
      THEN (IF \E j \in J : j > n
              THEN sentences[n] \o <<" ">> ELSE sentences[n])
           \o Chosen(sentences, J, n + 1)
    ELSE Chosen(sentences, J, n + 1)

\* C15: when CnbcParser has no statistics and a non-empty body, a summary of
\* the sentence tier is made of one to three of the first five sentences of
\* the body, each matching a topic keyword, in body order, joined by blanks.
C15_SentenceSummary ==
    (/\ Extracted("summary") /\ self.cls = "CnbcParser"
     /\ frame.statistics = <<>> /\ frame.content # <<>>
     /\ SummaryTier(frame.summary) = "sentences") =>
        LET sentences == SplitSentences(frame.content, 1, <<>>)
        IN  \E J \in SUBSET (1..5) :
                /\ Cardinality(J) \in 1..3
                /\ \A n \in J : /\ n <= Len(sentences)
                                /\ HasStem(sentences[n], SentenceWords, TRUE)
                /\ frame.summary = Chosen(sentences, J, 1)

\* C15 witness: the body has a sixth sentence that matches a keyword and two
\* matching sentences among the first five; the summary is those two.
C15_Witness ==
    LET sentences == SplitSentences(frame.content, 1, <<>>)
        J == {n \in 1..5 : n <= Len(sentences)
                              /\ HasStem(sentences[n], SentenceWords, TRUE)}
    IN  /\ xpc = "done" /\ self.cls = "CnbcParser"
        /\ frame.statistics = <<>>
        /\ Len(sentences) >= 6
        /\ HasStem(sentences[6], SentenceWords, TRUE)
        /\ Cardinality(J) = 2
        /\ \E n \in 1..5 : n \notin J
        /\ result.summary = Chosen(sentences, J, 1)

\* how often a tag occurs in a list of tags
Count(tags, tag) == Cardinality({n \in 1..Len(tags) : tags[n] = tag})

\* the canonical tags of the known patterns
RuleTags == {CnbcTagRules[n].tag : n \in 1..Len(CnbcTagRules)}

\* C16 as claimed: for both strategies the tags returned by parse() hold,
\* exactly once, the canonical tag of every known pattern that occurs in the
\* body, and start with the strategy's base tags.
C16_Original ==
    xpc = "done" =>
        LET base == IF self.cls = "CnbcParser" THEN CnbcBaseTags ELSE RootsBaseTags
        IN  /\ SubSeq(result.tags, 1, Len(base)) = base
            /\ \A n \in 1..Len(CnbcTagRules) :
                  PatternFound(CnbcTagRules[n].pattern, result.full_text_content)
                      => Count(result.tags, CnbcTagRules[n].tag) = 1

\* C16 amended: the tags of CnbcParser.parse() are its four base tags
\* followed by the canonical tag of every known pattern that occurs in the
\* body, each exactly once however often the pattern occurs, and by no tag
\* of a pattern that does not occur; the tags of RootsOfLonelinessParser
\* .parse() are its four base tags whatever the body contains.
C16_Tags ==
    xpc = "done" =>
        IF self.cls = "CnbcParser"
          THEN LET found == {n \in 1..Len(CnbcTagRules) :
                               PatternFound(CnbcTagRules[n].pattern,
                                            result.full_text_content)}
               IN  /\ SubSeq(result.tags, 1, 4) = CnbcBaseTags
                   /\ Len(result.tags) = 4 + Cardinality(found)
                   /\ \A n \in 1..Len(CnbcTagRules) :
                         Count(result.tags, CnbcTagRules[n].tag) =
                             (IF n \in found THEN 1 ELSE 0)
                   /\ \A tag \in Range(result.tags) : Count(result.tags, tag) = 1
          ELSE result.tags = RootsBaseTags

\* C16 witness: the body of a CNBC page has "social media" twice and
\* "mental health"; parse() returned both tags once after the base tags.
C16_Witness ==
    /\ xpc = "done" /\ self.cls = "CnbcParser"
    /\ Cardinality({k \in 1..(Len(result.full_text_content) - 2) :
                       /\ result.full_text_content[k] = "Social"
                       /\ result.full_text_content[k + 2] = "media"}) = 2
    /\ PatternFound("mental health", result.full_text_content)
    /\ ~PatternFound("millennials", result.full_text_content)
    /\ result.tags = CnbcBaseTags \o <<"social media", "mental health">>

ResultKeys == {"title", "summary", "source_name", "original_url",
               "publication_date", "authors", "full_text_content",
               "categories", "tags"}

\* C17: parse() on a fetched document goes from statement to statement up to
\* its return and nowhere else; the dict it returns has the nine keys; and
\* where the try block of an extraction method raised, the record holds the
\* fallback of that method: the generic title, the current date, the generic
\* author, no statistics (hence no bulleted summary), an empty body.
C17_CompleteRecord ==
    /\ xpc \in {"none", "title", "publication_date", "author", "statistics",
                "content", "summary", "return", "done"}
    /\ xpc = "done" =>
          /\ DOMAIN result = ResultKeys
          /\ result.original_url = self.url
          /\ result.source_name # "" /\ result.summary # <<>>
          /\ result.categories # <<>> /\ result.tags # <<>>
          /\ result.publication_date # NullDate
          /\ raised = "extract_title" =>
                result.title = (IF self.cls = "CnbcParser"
                                  THEN GenericTitleCnbc ELSE GenericTitleRoots)
          /\ raised = "extract_publication_date" =>
                result.publication_date = Today
          /\ raised = "extract_author" => result.authors = GenericAuthorCnbc
          /\ raised = "extract_statistics" =>
                /\ frame.statistics = <<>>
                /\ SummaryTier(result.summary) # "statistics"
          /\ raised = "extract_content" => result.full_text_content = <<>>

\* C17 witness: extract_content raised on a page whose container holds
\* paragraphs; parse() returned a record with an empty body and a summary
\* of the statistics.
C17_Witness ==
    /\ xpc = "done" /\ raised = "extract_content"
    /\ self.soup.container.found /\ self.soup.nodes # <<>>
    /\ extract_content(self.cls, self.soup, FALSE) # <<>>
    /\ result.full_text_content = <<>>
    /\ SummaryTier(result.summary) = "statistics"
    /\ DOMAIN result = ResultKeys

----------------------------------------------------------------------------
(* Taxonomy rows under commits *)

UniqueRows(rows) ==
    \A r1, r2 \in rows : (r1.name = r2.name \/ r1.slug = r2.slug) => r1 = r2

\* what one run of a save_to_db name loop over `names` may do to `rows`:
\* stored rows stay as they are, a new row carries one of the names and its
\* slug, and that slug was absent; when the loop completes, `found` is the
\* stored entity of each name, in order
LoopReuses(rows, rows2, names, completed, found) ==
    /\ rows \subseteq rows2
    /\ \A r \in rows2 \ rows :
          /\ \E k \in 1..Len(names) : r.name = names[k] /\ r.slug = slugify(names[k])
          /\ \A q \in rows : q.slug # r.slug
    /\ completed =>
          /\ found = [k \in 1..Len(names) |-> slugify(names[k])]
          /\ \A k \in 1..Len(names) : \E r \in rows2 : r.slug = found[k]

\* C18: no two Category rows and no two Tag rows share a name or a slug, and
\* the name loops of a commit reuse the row stored under a name's slug
\* (creating none, renaming none) and create a row with the name and its slug
\* only when that slug is absent.
C18_TaxonomyUnique ==
    /\ [](UniqueRows(categories) /\ UniqueRows(tagrows))
    /\ [][/\ pc = "s_cats" =>
               LoopReuses(categories, categories', data.categories,
                          pc' = "s_tags", cat_objs')
          /\ pc = "s_tags" =>
               LoopReuses(tagrows, tagrows', data.tags, pc' = "s_check", tag_objs')
          /\ pc \in {"s_cats", "s_tags"} => pc' # pc]_vars

\* a commit got past the tag loop for a record tagged "mental health" while
\* the row of that slug carried the name an editor gave it
C18_Witness ==
    /\ pc = "s_check"
    /\ \E k \in 1..Len(data.tags) : data.tags[k] = "mental health"
    /\ [name |-> "Mental Health", slug |-> "mental-health"] \in tagrows
    /\ \E k \in 1..Len(tag_objs) : tag_objs[k] = "mental-health"
    /\ \E r \in tagrows : r.slug = "loneliness"

----------------------------------------------------------------------------
(* Slug generation *)

Generated(name) == Prefix(SlugifyRuns(name), SlugMaxLen)

\* C19: a save generates the slug from the name (slugified, cut to the slug
\* field's maximum length) exactly when the slug is empty and the name is
\* not; a slug that is set is what the instance has after the save, whatever
\* the name is by then; the save leaves the name alone.
C19_SlugGeneratedOnce ==
    lastsave.op = "SlugMixin.save" =>
        LET before == lastsave.before
            after  == lastsave.after
        IN  /\ after.name = before.name
            /\ (before.slug = <<>> /\ before.name # <<>>)
                  => /\ after.slug = Generated(before.name)
                     /\ StrLen(after.slug) <= SlugMaxLen
            /\ (before.slug # <<>> \/ before.name = <<>>)
                  => after.slug = before.slug
            /\ lastsave.error = "" =>
                  stored = [name |-> after.name, slug |-> after.slug, pk |-> after.pk]

\* a stored instance whose slug an earlier save generated was renamed and
\* saved again: the slug is not the one its present name would generate
C19_Witness ==
    /\ lastsave.op = "SlugMixin.save" /\ lastsave.error = ""
    /\ lastsave.before.pk # None
    /\ lastsave.before.slug \notin SlugInputs
    /\ lastsave.before.name # <<>>
    /\ lastsave.before.slug # Generated(lastsave.before.name)
    /\ instance.slug = lastsave.before.slug
    /\ stored.slug = instance.slug /\ stored.name = instance.name

----------------------------------------------------------------------------
(* Publication timestamp *)

\* the stored row of the instance the last save wrote
SavedRow == Row(articles, lastsave.after.pk)

----------------------------------------------------------------------------
(* Status tracking *)

\* C21: a constructed instance has _original_status equal to its status;
\* after a save that succeeded the instance's _original_status is the status
\* just saved, which is the status of its row; between saves and loads an
\* assignment to status leaves _original_status alone, so the next save
\* compares against the status the instance last persisted.
C21_OriginalStatus ==
    /\ \A h \in Handles : objs[h].original_status = objs[h].status
    /\ []((lastsave.op = "Article.save" /\ lastsave.error = "") =>
            /\ lastsave.after.original_status = lastsave.before.status
            /\ lastsave.after.status = lastsave.before.status
            /\ SavedRow.status = lastsave.after.original_status)
    /\ [][\A h \in Handles :
            objs'[h].original_status # objs[h].original_status
                => objs'[h].original_status = objs'[h].status]_vars

\* a stored instance saved a status other than the one it had tracked
C21_Witness ==
    /\ lastsave.op = "Article.save" /\ lastsave.error = ""
    /\ lastsave.before.pk # None
    /\ lastsave.before.original_status = STATUS_DRAFT
    /\ lastsave.before.status = STATUS_PENDING
    /\ objs[lastsave.h].original_status = STATUS_PENDING
    /\ faults > 0

----------------------------------------------------------------------------
(* Public listings *)

Listed ==
    ArticleListView.object_list
      \cup UNION {CategoryArticlesView(slug).object_list : slug \in RequestSlugs}
      \cup UNION {TagArticlesView(slug).object_list : slug \in RequestSlugs}

\* C22: whatever the list, category and tag views return is a stored Article
\* whose status is PUBLISHED; an Article in another status is in none of the
\* listings, and neither is the Article a running commit has just created.
C22_OnlyPublishedListed ==
    /\ Listed \subseteq articles
    /\ \A a \in articles :
          a.status # STATUS_PUBLISHED => a \notin Listed
    /\ \A a \in articles :
          (article # NoInstance /\ a.id = article.id /\ pc # "idle")
              => a \notin Listed

\* a published Article is listed on the front page, under one of its
\* categories and under a tag that a stored draft shares
C22_Witness ==
    \E a, b \in articles, slug \in RequestSlugs, t \in RequestSlugs :
        /\ a.status = STATUS_PUBLISHED /\ b.status = STATUS_DRAFT
        /\ t \in a.tags /\ t \in b.tags
        /\ a \in ArticleListView.object_list
        /\ a \in CategoryArticlesView(slug).object_list
        /\ TagArticlesView(t).object_list = {a}
        /\ b \notin Listed

----------------------------------------------------------------------------
(* Create, then attach *)

\* save_to_db has returned the Article this call created
CreatedAndReturned ==
    /\ pc = "returned" /\ faulted = ""
    /\ article # NoInstance /\ ret = article.id

\* C23: a row that a step of a commit adds to the Article table carries no
\* category or tag link, links change only on a row that existed before the
\* step, and when the commit returns the Article it created, that Article is
\* linked to the stored entities of the record's category and tag names and
\* to no others.
C23_CreateThenAttach ==
    /\ [](CreatedAndReturned =>
            LET row == Row(articles, ret)
            IN  /\ row.categories = NameSlugs(data.categories)
                /\ row.tags = NameSlugs(data.tags)
                /\ row.categories = Range(cat_objs) /\ row.tags = Range(tag_objs)
                /\ row.categories \subseteq Slugs(categories)
                /\ row.tags \subseteq Slugs(tagrows))
    /\ [][InSave =>
            \A b \in articles' :
                IF b.id \in Ids(articles)
                  THEN LET a == Row(articles, b.id)
                       IN  (b.categories # a.categories \/ b.tags # a.tags)
                             => /\ pc \in {"s_addcats", "s_addtags"}
                                /\ b.id = article.id
                  ELSE /\ pc = "s_create"
                       /\ b.categories = {} /\ b.tags = {}]_vars

\* the commit returned a new Article that has category and tag links
C23_Witness ==
    /\ CreatedAndReturned
    /\ Row(articles, ret).categories # {}
    /\ Cardinality(Row(articles, ret).tags) > Cardinality(Row(articles, ret).categories)
    /\ Cardinality(articles) = 2

----------------------------------------------------------------------------
(* Frame of the dedup path *)

\* save_to_db has returned the Article its existence check found
DedupReturned == pc = "returned" /\ Path = "dedup"

\* the rows a name loop may have inserted: a name of the record with its
\* slug, where that slug was not stored
InsertedByLoop(before, now, names) ==
    /\ before \subseteq now
    /\ \A r \in now \ before :
          /\ \E k \in 1..Len(names) : r = [name |-> names[k], slug |-> slugify(names[k])]
          /\ r.slug \notin Slugs(before)

\* C24 as claimed: a save_to_db call that takes the dedup path leaves the
\* Article, Category and Tag tables as they were when it began.
C24_Original ==
    DedupReturned =>
        /\ articles = pre.articles
        /\ categories = pre.categories
        /\ tagrows = pre.tagrows

\* C24 amended: a save_to_db call that takes the dedup path leaves the
\* Article table (rows, fields, links) as it was when it began; the only rows
\* it writes are Category and Tag rows for names of the record whose slug was
\* not stored.
C24_DedupFrame ==
    DedupReturned =>
        /\ articles = pre.articles
        /\ InsertedByLoop(pre.categories, categories, data.categories)
        /\ InsertedByLoop(pre.tagrows, tagrows, data.tags)

\* the dedup path was taken by a record with a tag that was not stored: the
\* Tag table has grown, the Article table has not
C24_Witness ==
    /\ DedupReturned
    /\ ret = StoredId(pre.articles, data.original_url)
    /\ articles = pre.articles
    /\ tagrows # pre.tagrows

----------------------------------------------------------------------------
(* What the batch reports *)

\* C25: when parse_multiple_urls has returned (the batch began on an empty
\* store, so every stored Article was created by it), every stored Article
\* is the entry of its original_url in the mapping, and so a URL whose entry
\* is None has no stored Article.
C25_CreatedReported ==
    (pc = "done" /\ entry = "parse_multiple_urls") =>
        \A a \in articles :
            /\ DictHas(results, a.original_url)
            /\ DictGet(results, a.original_url) = a.id

----------------------------------------------------------------------------
(* The input URL as the key *)

\* C26: when processing of the URL at the current position has returned an
\* Article (created by this call or found by the existence check), and for
\* every non-None entry of the mapping, the stored original_url of that
\* Article is the input URL, token for token.
C26_UrlIsKey ==
    /\ (pc = "returned" /\ entry = "parse_multiple_urls" /\ ret # None) =>
          /\ ret \in Ids(articles)
          /\ Row(articles, ret).original_url = urls[i]
    /\ entry = "parse_multiple_urls" =>
          \A n \in 1..Len(results) :
              results[n][2] # None =>
                  /\ results[n][2] \in Ids(articles)
                  /\ Row(articles, results[n][2]).original_url = results[n][1]

\* a batch has returned in which one URL was created and found again and
\* another URL of the same host was created next to it
C26_Witness ==
    /\ pc = "done" /\ entry = "parse_multiple_urls" /\ Len(urls) = 3
    /\ urls[1] = urls[3] /\ urls[2] # urls[1] /\ urls[2][1] = urls[1][1]
    /\ outcomes[1].path = "created" /\ outcomes[2].path = "created"
    /\ outcomes[3].path = "dedup"
    /\ DictGet(results, urls[1]) = outcomes[1].created
    /\ DictGet(results, urls[2]) = outcomes[2].created
    /\ Row(articles, outcomes[2].created).original_url = urls[2]

----------------------------------------------------------------------------
(* Published rows *)

\* C27: every stored Article whose status is PUBLISHED has a published_at,
\* also when its first save already had the status PUBLISHED.
C27_PublishedHasTimestamp ==
    \A a \in articles : a.status = STATUS_PUBLISHED => a.published_at # None

----------------------------------------------------------------------------
(* Publication timestamp, once set *)

\* C28: a stored published_at that is set is never changed or cleared by a
\* later step (every step that writes the row is an Article.save).
C28_PublishedAtKept ==
    [][\A a \in articles :
          a.published_at # None =>
              \E b \in articles' : b.id = a.id /\ b.published_at = a.published_at]_vars


----------------------------------------------------------------------------
(* Two concurrent save_to_db calls for one URL *)

\* the Article rows stored for the URL the two calls were given
StoredForUrl ==
    {a \in articles : \E w \in Workers : a.original_url = workers[w].data.original_url}

\* both calls found no row in their existence check: each went on to the INSERT
BothPassedCheck ==
    \A w \in Workers :
        \/ workers[w].article # NoInstance
        \/ workers[w].faulted = "integrity"
        \/ workers[w].pc = "s_create"

\* C29: in every interleaving of two concurrent save_to_db calls for the same
\* URL that is not yet stored, the store never holds two Article rows with
\* that URL (nor two rows with one URL at all).
C29_NoDuplicateRow ==
    /\ Cardinality(StoredForUrl) <= 1
    /\ \A a, b \in articles : a.original_url = b.original_url => a.id = b.id

\* both calls ran the existence check before either created the row; one
\* INSERT has gone through and the other has been refused
C29_Witness ==
    /\ workers # NoWorkers
    /\ BothPassedCheck
    /\ \E w, v \in Workers :
          /\ workers[w].article # NoInstance
          /\ workers[v].faulted = "integrity"
          /\ workers[v].cat_objs = workers[w].cat_objs
    /\ Cardinality(StoredForUrl) = 1

\* C30: when both of two concurrent save_to_db calls for the same not yet
\* stored URL have returned, and the database failed no statement, each has
\* returned the single Article stored for that URL, neither has returned None.
C30_BothReturnArticle ==
    (/\ workers # NoWorkers
     /\ faults = 0
     /\ \A w \in Workers : workers[w].pc = "returned")
        => \A w \in Workers :
              /\ workers[w].ret # None
              /\ StoredForUrl = {Row(articles, workers[w].ret)}

====
